---- MODULE Spec2Model ----
(***************************************************************************)
(* A model of the Assuan client engine of pinentry-rs (src/src/assuan.rs,  *)
(* src/src/error.rs): the request encoder, the response parser, the        *)
(* error classifier and the read loop of Connection::read_response, and    *)
(* one dialog (src/src/lib.rs, src/src/unix.rs) on a Connection from its   *)
(* spawn to its drop.                                                      *)
(*                                                                         *)
(* Text is modelled as a sequence of bytes (the UTF-8 encoding of a Rust   *)
(* str/String).  Option<T> is a sequence of length 0 (None) or 1 (Some).   *)
(***************************************************************************)
EXTENDS Integers, Sequences, FiniteSets, TLC

VARIABLES
    \* ---- encode_request applied to one (command, parameters) pair
    epc,          \* "call" | "returned" | "decoded"
    command,      \* the &str command
    parameters,   \* Option<&str>
    encoded,      \* what encode_request returned: [panic, buf]
    roundtrip,    \* Option<Result>: the encoded parameter portion, percent-decoded
    \* ---- read::server_response applied to one input line
    ppc,          \* "input" | "parsed" | "classified"
    input,        \* the line handed to the parser
    parsed,       \* the parser's result
    classified,   \* Option<Error>: Error::from_parts of a parsed Err
    \* ---- Connection::read_response
    pc,           \* position of the caller / of read_response
    line,         \* the raw line buffer (String)
    data,         \* Option<SecretString>: the accumulated data
    result,       \* Option<Result<Option<SecretString>>>: what the call returned
    released,     \* buffers released so far in this call, with their content when released
    seen,         \* the D lines read so far in this call, as the helper sent them
    got,          \* every line read so far in this call, as the helper sent it
    nread,        \* lines read in this call
    ncalls,       \* calls of read_response made on the connection
    \* ---- one dialog: Connection::open, the dialog's requests, the drop
    cpc,          \* position of the dialog function (the statement it is at)
    cfg,          \* the dialog: the function called and the builder's fields
    wire,         \* the buffers written to the helper's stdin, in order
    pending,      \* lines the helper has written and the client has not read
    helper,       \* "none" | "running" | "exited"
    answered,     \* requests the helper has replied to
    calls,        \* the request/response cycles made: [command, parameters, result]
    outcome,      \* Option<Result>: what the dialog function returned
    unwinding     \* TRUE while a panic unwinds the stack

evars == <<epc, command, parameters, encoded, roundtrip>>
pvars == <<ppc, input, parsed, classified>>
rvars == <<pc, line, data, result, released, seen, got, nread, ncalls>>
cvars == <<cpc, cfg, wire, pending, helper, answered, calls, outcome, unwinding>>
vars == <<epc, command, parameters, encoded, roundtrip,
          ppc, input, parsed, classified,
          pc, line, data, result, released, seen, got, nread, ncalls,
          cpc, cfg, wire, pending, helper, answered, calls, outcome, unwinding>>

(***************************************************************************)
(* Bounds of the model.                                                    *)
(***************************************************************************)
\* Characters in a parameter text handed to encode_request.
MaxTextLen == 3
\* Lines the helper sends in one response cycle before the model cuts it off.
MaxLines == 3
\* Calls of read_response on one connection.
MaxCalls == 2
\* Leading zeros put before an ERR line's code.
MaxLeadingZeros == 1
\* GETPIN requests of one interact before the model cuts its loop off.
MaxPrompts == 2
\* Replies with D lines that decode the helper sends to one dialog.
MaxDataReplies == 2

(***************************************************************************)
(* Bytes the code names.                                                   *)
(***************************************************************************)
LF == 10
CR == 13
SPACE == 32
PERCENT == 37
BACKSLASH == 92
\* assert!(buf.as_bytes().len() <= 1000, ...)
MaxLineBytes == 1000

None == <<>>
Some(x) == <<x>>

RECURSIVE Flatten(_)
\* The concatenation of a sequence of byte strings.
Flatten(ss) == IF ss = <<>> THEN <<>> ELSE Head(ss) \o Flatten(Tail(ss))

\* Whether byte string s starts with byte string t.
StartsWith(s, t) == Len(s) >= Len(t) /\ SubSeq(s, 1, Len(t)) = t

\* s without its first n bytes.
Drop(s, n) == SubSeq(s, n + 1, Len(s))

\* Whether byte b occurs in s, and how often.
Count(s, b) == Cardinality({i \in 1..Len(s) : s[i] = b})

(***************************************************************************)
(* encode_request (assuan.rs 53-78)                                        *)
(***************************************************************************)
\* EscapeChar with the carriage-return arm left out.
EscapeCharNoCR(c) ==
    IF c = LF THEN <<37, 48, 65>>
    ELSE IF c = PERCENT THEN <<37, 50, 53>>
    ELSE <<c>>

\* EscapeChar with the line-feed arm left out.
EscapeCharNoLF(c) ==
    IF c = CR THEN <<37, 48, 68>>
    ELSE IF c = PERCENT THEN <<37, 50, 53>>
    ELSE <<c>>

\* EscapeChar with the percent arm left out.
EscapeCharNoPercent(c) ==
    IF c = LF THEN <<37, 48, 65>>
    ELSE IF c = CR THEN <<37, 48, 68>>
    ELSE <<c>>

\* The match of lines 60-65 on one byte of the parameter.  The code matches on
\* chars; the three chars it escapes are ASCII, and the bytes of a multi-byte
\* char are all >= 0x80, so they fall to the last arm one by one.
\*   '\n' => "%0A", '\r' => "%0D", '%' => "%25", _ => c
EscapeChar(c) ==
    IF c = LF THEN <<37, 48, 65>>
    ELSE IF c = CR THEN <<37, 48, 68>>
    ELSE IF c = PERCENT THEN <<37, 50, 53>>
    ELSE <<c>>

RECURSIVE EscapeParams(_)
\* The loop of lines 59-66.
EscapeParams(p) ==
    IF p = <<>> THEN <<>>
    ELSE IF Len(p) = 1 THEN EscapeChar(p[1])
    ELSE LET h == Len(p) \div 2
         IN  EscapeParams(SubSeq(p, 1, h)) \o EscapeParams(SubSeq(p, h + 1, Len(p)))

\* EscapeTrailingBackslash left out: the buffer stays as it is.
KeepTrailingBackslash(buf) == buf

\* Lines 68-71: a last byte '\\' is popped and "%5C" pushed.
EscapeTrailingBackslash(buf) ==
    IF Len(buf) > 0 /\ buf[Len(buf)] = BACKSLASH
    THEN SubSeq(buf, 1, Len(buf) - 1) \o <<37, 53, 67>>
    ELSE buf

\* encode_request without the assert of line 73.
encode_request_unchecked(cmd, params) ==
    [panic |-> FALSE,
     buf |-> EscapeTrailingBackslash(
                 cmd \o (IF params = None THEN <<>>
                         ELSE <<SPACE>> \o EscapeParams(params[1]))) \o <<LF>>]

\* encode_request(command, parameters): the String it returns, or the panic of
\* the assert of line 73.
encode_request(cmd, params) ==
    LET buf1 == cmd \o (IF params = None THEN <<>>
                        ELSE <<SPACE>> \o EscapeParams(params[1]))
        buf2 == EscapeTrailingBackslash(buf1) \o <<LF>>
    IN  IF Len(buf2) <= MaxLineBytes
        THEN [panic |-> FALSE, buf |-> buf2]
        ELSE [panic |-> TRUE, buf |-> <<>>]

(***************************************************************************)
(* percent_decode_str(..).decode_utf8() (assuan.rs 191-192)                *)
(***************************************************************************)
IsHexDigit(b) == (b >= 48 /\ b <= 57) \/ (b >= 65 /\ b <= 70) \/ (b >= 97 /\ b <= 102)

HexValue(b) == IF b <= 57 THEN b - 48 ELSE IF b <= 70 THEN b - 55 ELSE b - 87

RECURSIVE percent_decode(_)
\* '%' followed by two hex digits becomes the byte they denote; every other
\* byte, a '%' not followed by two hex digits included, is copied.
percent_decode(s) ==
    IF s = <<>> THEN <<>>
    ELSE IF s[1] = PERCENT /\ Len(s) >= 3 /\ IsHexDigit(s[2]) /\ IsHexDigit(s[3])
         THEN <<HexValue(s[2]) * 16 + HexValue(s[3])>> \o percent_decode(Drop(s, 3))
         ELSE <<s[1]>> \o percent_decode(Tail(s))

IsCont(s, i) == Len(s) >= i /\ s[i] >= 128 /\ s[i] <= 191

RECURSIVE IsUtf8(_)
\* str::from_utf8: whether the bytes are well-formed UTF-8.
IsUtf8(s) ==
    IF s = <<>> THEN TRUE
    ELSE LET b == s[1] IN
         IF b < 128 THEN IsUtf8(Tail(s))
         ELSE IF b >= 194 /\ b <= 223
              THEN IsCont(s, 2) /\ IsUtf8(Drop(s, 2))
         ELSE IF b >= 224 /\ b <= 239
              THEN /\ IsCont(s, 2) /\ IsCont(s, 3)
                   /\ (b = 224 => s[2] >= 160)
                   /\ (b = 237 => s[2] <= 159)
                   /\ IsUtf8(Drop(s, 3))
         ELSE IF b >= 240 /\ b <= 244
              THEN /\ IsCont(s, 2) /\ IsCont(s, 3) /\ IsCont(s, 4)
                   /\ (b = 240 => s[2] >= 144)
                   /\ (b = 244 => s[2] <= 143)
                   /\ IsUtf8(Drop(s, 4))
         ELSE FALSE

\* The decoding that takes any bytes for text (as decode_utf8_lossy does).
decode_utf8_lossy(s) ==
    LET bytes == percent_decode(s)
    IN  [ok |-> TRUE, bytes |-> bytes, owned |-> bytes # s]

\* percent_decode_str(s).decode_utf8(): Ok(text) or Err(Utf8Error).  `owned`
\* tells a Cow::Owned (some escape was decoded into a fresh buffer) from a
\* Cow::Borrowed (the input had no escape and is returned as it is).
decode_utf8(s) ==
    LET bytes == percent_decode(s)
    IN  [ok |-> IsUtf8(bytes), bytes |-> bytes, owned |-> bytes # s]

(***************************************************************************)
(* Error (error.rs 53-100)                                                 *)
(***************************************************************************)
GPG_ERR_TIMEOUT == 62
GPG_ERR_CANCELED == 99
GPG_ERR_NOT_CONFIRMED == 114

\* The variants of enum Error.  Only Gpg carries a code and a description, and
\* only Io a kind; the other fields are fillers.
ErrCancelled == [tag |-> "Cancelled", code |-> 0, description |-> None, kind |-> ""]
ErrTimeout == [tag |-> "Timeout", code |-> 0, description |-> None, kind |-> ""]
ErrGpg(code, description) ==
    [tag |-> "Gpg", code |-> code, description |-> description, kind |-> ""]
ErrIo(kind) == [tag |-> "Io", code |-> 0, description |-> None, kind |-> kind]
ErrEncoding == [tag |-> "Encoding", code |-> 0, description |-> None, kind |-> ""]

\* from_parts with its two special arms swapped.
from_parts_swapped(code, description) ==
    IF code = GPG_ERR_TIMEOUT THEN ErrCancelled
    ELSE IF code = GPG_ERR_CANCELED THEN ErrTimeout
    ELSE ErrGpg(code, description)

\* Error::from_parts (error.rs 93-99).
from_parts(code, description) ==
    IF code = GPG_ERR_TIMEOUT THEN ErrTimeout
    ELSE IF code = GPG_ERR_CANCELED THEN ErrCancelled
    ELSE ErrGpg(code, description)

(***************************************************************************)
(* mod read (assuan.rs 223-298): the nom parser.  A parser applied to an   *)
(* input returns [ok, rest, out]: whether it matched, the input left, and  *)
(* its output (a byte string, or an Option of one).                        *)
(***************************************************************************)
PFail(i) == [ok |-> FALSE, rest |-> i, out |-> <<>>]

\* tag(t): the input starts with t.
tag(t, i) ==
    IF StartsWith(i, t) THEN [ok |-> TRUE, rest |-> Drop(i, Len(t)), out |-> t]
    ELSE PFail(i)

RECURSIVE PrefixLen(_, _)
\* The length of the longest prefix of i with every byte in `allowed`.
PrefixLen(i, allowed) ==
    IF i # <<>> /\ allowed[Head(i)] THEN 1 + PrefixLen(Tail(i), allowed) ELSE 0

\* A predicate on bytes, as a function (an operator cannot be passed to a
\* RECURSIVE operator's parameter of arity 0).
NotIn(stop) == [b \in 0..255 |-> b \notin stop]
IsDigit == [b \in 0..255 |-> b >= 48 /\ b <= 57]

\* Take the longest non-empty prefix whose bytes satisfy `allowed`; an empty
\* one is an error (is_not and digit1 both need one byte at least).
take1(allowed, i) ==
    LET n == PrefixLen(i, allowed)
    IN  IF n = 0 THEN PFail(i)
        ELSE [ok |-> TRUE, rest |-> Drop(i, n), out |-> SubSeq(i, 1, n)]

\* is_not(stop): the longest non-empty run of bytes none of which is in stop.
is_not(stop, i) == take1(NotIn(stop), i)

\* digit1: the longest non-empty run of ASCII digits.
digit1(i) == take1(IsDigit, i)

\* line_ending: "\n" or "\r\n".
line_ending(i) ==
    IF StartsWith(i, <<LF>>) THEN tag(<<LF>>, i)
    ELSE IF StartsWith(i, <<CR, LF>>) THEN tag(<<CR, LF>>, i)
    ELSE PFail(i)

\* opt(preceded(tag(" "), is_not("\r\n"))): Some(text) when a space and a
\* non-empty text follow, None (and no input consumed) otherwise.
opt_rest(i) ==
    LET sp == tag(<<SPACE>>, i)
        tx == is_not({CR, LF}, sp.rest)
    IN  IF sp.ok /\ tx.ok
        THEN [ok |-> TRUE, rest |-> tx.rest, out |-> Some(tx.out)]
        ELSE [ok |-> TRUE, rest |-> i, out |-> None]

RECURSIVE ParseU32(_, _, _)
\* code.parse::<u32>(): the digits, most significant first, accumulated with
\* checked arithmetic.  The value is kept as hi * 2^16 + lo; `None` is the
\* PosOverflow error of a value above u32::MAX.
ParseU32(ds, hi, lo) ==
    IF ds = <<>> THEN Some([hi |-> hi, lo |-> lo])
    ELSE CHOOSE ret \in
           { IF hl[1] >= 65536 THEN None
             ELSE ParseU32(Tail(ds), hl[1], hl[2] % 65536)
             : hl \in { <<hi * 10 + ((lo * 10 + (Head(ds) - 48)) \div 65536),
                         lo * 10 + (Head(ds) - 48)>> } } : TRUE

\* A saturating conversion in the place of `as u16`.
SaturateU16(full) == IF full.hi > 0 THEN 65535 ELSE full.lo

\* `full as u16` (line 239): the low 16 bits.
TruncateU16(full) == full.lo

\* gpg_error_code (lines 235-241): [ok, rest, out |-> the u16 code, panic];
\* `.expect("have decimal digits")` panics when the digits overflow a u32.
gpg_error_code(i) ==
    CHOOSE ret \in
      { IF ~d.ok THEN [ok |-> FALSE, rest |-> i, out |-> 0, panic |-> FALSE]
        ELSE CHOOSE r \in
          { IF full = None
            THEN [ok |-> FALSE, rest |-> i, out |-> 0, panic |-> TRUE]
            ELSE [ok |-> TRUE, rest |-> d.rest, out |-> TruncateU16(full[1]),
                  panic |-> FALSE]
            : full \in {ParseU32(d.out, 0, 0)} } : TRUE
        : d \in {digit1(i)} } : TRUE

\* A Response (lines 21-44), or the failure of the parser.  kind is "Ok", "Err",
\* "Information", "Comment", "DataLine", "Inquire", "ParseError" or "Panic";
\* text is the first field (keyword, comment or data), opt the optional one
\* (info, description, status or parameters).
Resp(kind, code, text, optf) == [kind |-> kind, code |-> code, text |-> text, opt |-> optf]
ParseError == Resp("ParseError", 0, <<>>, None)
ParsePanic == Resp("Panic", 0, <<>>, None)

\* What an alternative of alt(...) returns: whether it matched, the input
\* left, and the Response it built.
Alt(ok, rest, resp) == [ok |-> ok, rest |-> rest, resp |-> resp]
AltFail(i) == Alt(FALSE, i, ParseError)

\* preceded(tag("OK"), map(opt(preceded(tag(" "), is_not("\r\n"))), Response::Ok))
alt_ok(i) ==
    LET t == tag(<<79, 75>>, i)
        o == opt_rest(t.rest)
    IN  IF t.ok THEN Alt(TRUE, o.rest, Resp("Ok", 0, <<>>, o.out)) ELSE AltFail(i)

\* preceded(tag("ERR "), map(pair(gpg_error_code, opt(...)), Response::Err))
alt_err(i) ==
    CHOOSE ret \in
      { IF ~t.ok THEN AltFail(i)
        ELSE CHOOSE r \in
          { IF c.panic THEN Alt(TRUE, i, ParsePanic)
            ELSE IF ~c.ok THEN AltFail(i)
            ELSE CHOOSE a \in
              { Alt(TRUE, o.rest, Resp("Err", c.out, <<>>, o.out))
                : o \in {opt_rest(c.rest)} } : TRUE
            : c \in {gpg_error_code(t.rest)} } : TRUE
        : t \in {tag(<<69, 82, 82, 32>>, i)} } : TRUE

\* preceded(tag(prefix), map(pair(is_not(" \r\n"), opt(...)), build)): the
\* shape of the "S " and the "INQUIRE " alternatives.
alt_keyword(prefix, kind, i) ==
    LET t == tag(prefix, i)
        k == is_not({SPACE, CR, LF}, t.rest)
        o == opt_rest(k.rest)
    IN  IF t.ok /\ k.ok THEN Alt(TRUE, o.rest, Resp(kind, 0, k.out, o.out))
        ELSE AltFail(i)

\* preceded(tag(prefix), map(is_not("\r\n"), build)): the shape of the "# "
\* and the "D " alternatives.
alt_text(prefix, kind, i) ==
    LET t == tag(prefix, i)
        x == is_not({CR, LF}, t.rest)
    IN  IF t.ok /\ x.ok THEN Alt(TRUE, x.rest, Resp(kind, 0, x.out, None))
        ELSE AltFail(i)

\* alt((...)) of lines 245-294: the first alternative that matches.
alt(i) ==
    CHOOSE ret \in
      { IF as[1].ok THEN as[1]
        ELSE IF as[2].ok THEN as[2]
        ELSE IF as[3].ok THEN as[3]
        ELSE IF as[4].ok THEN as[4]
        ELSE IF as[5].ok THEN as[5]
        ELSE as[6]
        : as \in { << alt_ok(i),
                      alt_err(i),
                      alt_keyword(<<83, 32>>, "Information", i),
                      alt_text(<<35, 32>>, "Comment", i),
                      alt_text(<<68, 32>>, "DataLine", i),
                      alt_keyword(<<73, 78, 81, 85, 73, 82, 69, 32>>, "Inquire", i) >> } }
      : TRUE

\* The alternatives without terminated(.., line_ending).
server_response_unterminated(i) ==
    LET a == alt(i)
    IN  IF a.ok THEN a.resp ELSE ParseError

\* server_response (lines 243-297): terminated(alt(...), line_ending).  The
\* Response, ParseError when no alternative matches or no line ending follows
\* the one that did, or Panic.
server_response(i) ==
    CHOOSE ret \in
      { IF a.ok /\ a.resp.kind = "Panic" THEN ParsePanic
        ELSE IF a.ok /\ line_ending(a.rest).ok THEN a.resp
        ELSE ParseError
        : a \in {alt(i)} } : TRUE

(***************************************************************************)
(* Specification SpecEncode: encode_request applied to a command and an    *)
(* optional parameter text, and the parameter portion of its result        *)
(* decoded the way read_response decodes the content of a D line.          *)
(***************************************************************************)
\* The chars a parameter text is made of: '\n', '\r', '%', '\\', '4', '1'
\* and the two-byte char U+00E9.
Chars == {<<LF>>, <<CR>>, <<PERCENT>>, <<BACKSLASH>>, <<52>>, <<49>>, <<195, 169>>}

Texts == {Flatten(cs) : cs \in UNION {[1..k -> Chars] : k \in 0..MaxTextLen}}

\* "", "CMD" (the two commands of tests::encoding), "A\\" and "A\nB".
Commands == {<<>>, <<67, 77, 68>>, <<65, BACKSLASH>>, <<65, LF, 66>>}

NoEncoding == [panic |-> FALSE, buf |-> <<>>]
NoResponse == Resp("", 0, <<>>, None)

EncodeIdle ==
    /\ epc = "idle" /\ command = <<>> /\ parameters = None
    /\ encoded = NoEncoding /\ roundtrip = None

ParseIdle ==
    /\ ppc = "idle" /\ input = <<>> /\ parsed = NoResponse /\ classified = None

ReadIdle ==
    /\ pc = "idle" /\ line = <<>> /\ data = None /\ result = None
    /\ released = {} /\ seen = <<>> /\ got = <<>> /\ nread = 0 /\ ncalls = 0

\* No dialog: every field of the builder unset.
NoDialog ==
    [fn |-> "", required |-> None, title |-> None, description |-> None,
     error |-> None, prompt |-> None, ok |-> None, cancel |-> None,
     not_ok |-> None, confirmation |-> None, timeout |-> None,
     tty_name |-> None, tty_type |-> None, term |-> None, unix |-> FALSE]

ConnIdle ==
    /\ cpc = "idle" /\ cfg = NoDialog /\ wire = <<>> /\ pending = <<>>
    /\ helper = "none" /\ answered = 0 /\ calls = <<>> /\ outcome = None
    /\ unwinding = FALSE

InitEncode ==
    /\ epc = "call"
    /\ command \in Commands
    /\ parameters \in {None} \cup {Some(t) : t \in Texts}
    /\ encoded = NoEncoding
    /\ roundtrip = None
    /\ ParseIdle
    /\ ReadIdle
    /\ ConnIdle

\* let buf = encode_request(command, parameters);   (line 155)
Encode ==
    /\ epc = "call"
    /\ encoded' = encode_request(command, parameters)
    /\ epc' = "returned"
    /\ UNCHANGED <<command, parameters, roundtrip>>
    /\ UNCHANGED pvars
    /\ UNCHANGED rvars
    /\ UNCHANGED cvars

\* The text after the command and the single space, without the final
\* line-feed, run through percent_decode_str(..).decode_utf8() (lines 191-192).
DecodeParameters ==
    /\ epc = "returned"
    /\ parameters # None
    /\ ~encoded.panic
    /\ roundtrip' = Some(decode_utf8(
           SubSeq(encoded.buf, Len(command) + 2, Len(encoded.buf) - 1)))
    /\ epc' = "decoded"
    /\ UNCHANGED <<command, parameters, encoded>>
    /\ UNCHANGED pvars
    /\ UNCHANGED rvars
    /\ UNCHANGED cvars

NextEncode == Encode \/ DecodeParameters

SpecEncode == InitEncode /\ [][NextEncode]_vars

(***************************************************************************)
(* Specification SpecParse: read::server_response applied to one line, and *)
(* Error::from_parts applied to the Err it parsed (line 186).              *)
(***************************************************************************)
RECURSIVE Dec(_)
\* The decimal digits of n, as ASCII bytes.
Dec(n) == IF n < 10 THEN <<48 + n>> ELSE Dec(n \div 10) \o <<48 + (n % 10)>>

\* The codes of the ERR lines: around the three reserved codes, around 2^16,
\* 2^16 and 2 * 2^16 plus a reserved code, 2^31 - 1, 2^32 - 1, 2^32 and 10^10.
CodeDigits ==
    {Dec(n) : n \in {0, 1, 61, 62, 63, 98, 99, 100, 113, 114, 115, 65535, 65536,
                     65598, 65635, 65650, 131134, 131171, 2147483647}}
    \cup {<<52, 50, 57, 52, 57, 54, 55, 50, 57, 53>>,
          <<52, 50, 57, 52, 57, 54, 55, 50, 57, 54>>,
          <<49, 48, 48, 48, 48, 48, 48, 48, 48, 48, 48>>}

Zeros(k) == [i \in 1..k |-> 48]

\* No description, and the description "x".
Descriptions == {<<>>, <<SPACE, 120>>}

LineEndings == {<<LF>>, <<CR, LF>>}

ErrLines ==
    {<<69, 82, 82, 32>> \o Zeros(k) \o ds \o d \o e :
        k \in 0..MaxLeadingZeros, ds \in CodeDigits, d \in Descriptions, e \in LineEndings}

\* Lines of the other five shapes, and lines of none.
OtherLines ==
    { <<79, 75, LF>>,                                  \* "OK\n"
      <<79, 75, CR, LF>>,                              \* "OK\r\n"
      <<79, 75, 32, 104, 105, LF>>,                    \* "OK hi\n"
      <<79, 75, 32, LF>>,                              \* "OK \n"
      <<79, 75, 65, 89, LF>>,                          \* "OKAY\n"
      <<79, 75>>,                                      \* "OK", cut short
      <<83, 32, 107, LF>>,                             \* "S k\n"
      <<83, 32, 107, 32, 118, LF>>,                    \* "S k v\n"
      <<35, 32, 99, LF>>,                              \* "# c\n"
      <<35, 32, LF>>,                                  \* "# \n"
      <<68, 32, 97, LF>>,                              \* "D a\n"
      <<68, 32, 37, 52, 49, CR, LF>>,                  \* "D %41\r\n"
      <<68, 32, LF>>,                                  \* "D \n"
      <<68, 32, 97>>,                                  \* "D a", cut short
      <<73, 78, 81, 85, 73, 82, 69, 32, 107, LF>>,     \* "INQUIRE k\n"
      <<73, 78, 81, 85, 73, 82, 69, 32, 107, 32, 112, LF>>,  \* "INQUIRE k p\n"
      <<69, 82, 82, 32, LF>>,                          \* "ERR \n"
      <<69, 82, 82, 32, 120, LF>>,                     \* "ERR x\n"
      <<69, 82, 82, 32, 57, 57, 120, LF>>,             \* "ERR 99x\n"
      <<69, 82, 82, 32, 57, 57, 32, LF>>,              \* "ERR 99 \n"
      <<88, LF>>,                                      \* "X\n"
      <<>> }                                           \* end of input

ParserInputs == ErrLines \cup OtherLines

InitParse ==
    /\ ppc = "input"
    /\ input \in ParserInputs
    /\ parsed = NoResponse
    /\ classified = None
    /\ EncodeIdle
    /\ ReadIdle
    /\ ConnIdle

\* read::server_response(&line)   (line 170)
Parse ==
    /\ ppc = "input"
    /\ parsed' = server_response(input)
    /\ ppc' = "parsed"
    /\ UNCHANGED <<input, classified>>
    /\ UNCHANGED evars
    /\ UNCHANGED rvars
    /\ UNCHANGED cvars

\* Error::from_parts(code, description)   (line 186)
Classify ==
    /\ ppc = "parsed"
    /\ parsed.kind = "Err"
    /\ classified' = Some(from_parts(parsed.code, parsed.opt))
    /\ ppc' = "classified"
    /\ UNCHANGED <<input, parsed>>
    /\ UNCHANGED evars
    /\ UNCHANGED rvars
    /\ UNCHANGED cvars

NextParse == Parse \/ Classify

SpecParse == InitParse /\ [][NextParse]_vars

(***************************************************************************)
(* Specification Spec: calls of Connection::read_response (lines 160-214)  *)
(* on one connection.  Each action after Call is one iteration of the      *)
(* loop: line.zeroize(), read_line, server_response and the arm of the     *)
(* match the line selects.  The helper's next line is the action's input.  *)
(*                                                                         *)
(* released records every buffer whose storage the call has given up, with *)
(* the bytes it held at that moment; a buffer zeroed first holds none.     *)
(* When the call has returned, line holds what the line buffer held when   *)
(* it was dropped.                                                         *)
(***************************************************************************)
\* The lines the helper may send.
HelperLines ==
    { <<79, 75, LF>>,                                  \* "OK\n"
      <<79, 75, 32, 104, 105, CR, LF>>,                \* "OK hi\r\n"
      <<69, 82, 82, 32, 57, 57, 32, 99, LF>>,          \* "ERR 99 c\n"
      <<69, 82, 82, 32, 54, 50, LF>>,                  \* "ERR 62\n"
      <<69, 82, 82, 32, 53, LF>>,                      \* "ERR 5\n"
      <<69, 82, 82, 32, 52, 50, 57, 52, 57, 54, 55, 50, 57, 54, LF>>,  \* "ERR 4294967296\n"
      <<68, 32, 97, LF>>,                              \* "D a\n"
      <<68, 32, 37, 52, 49, CR, LF>>,                  \* "D %41\r\n"
      <<68, 32, 37, 70, 70, LF>>,                      \* "D %FF\n"
      <<35, 32, 99, LF>>,                              \* "# c\n"
      <<83, 32, 107, 32, 118, LF>>,                    \* "S k v\n"
      <<73, 78, 81, 85, 73, 82, 69, 32, 107, LF>>,     \* "INQUIRE k\n"
      <<88, LF>>,                                      \* "X\n"
      <<>> }                                           \* end of input: read_line reads nothing

\* What read_line may have appended to the line buffer when it fails: nothing,
\* or the part of a line that arrived before the failure ("D a").
PartialLines == {<<>>, <<68, 32, 97>>}

\* Zeroize::zeroize on a String or a SecretString: the bytes are overwritten
\* and the string is cleared.
Zeroize(s) == <<>>

\* The drop of an Option<String>: a plain buffer, released as it is.
DropPlain(name, secret) ==
    IF secret = None THEN {} ELSE {[buf |-> name, content |-> secret[1]]}

\* An Option<SecretString> going out of scope: the secret is zeroed, then its
\* storage is released.
DropSecret(name, secret) ==
    IF secret = None THEN {} ELSE {[buf |-> name, content |-> Zeroize(secret[1])]}

\* A String going out of scope: its storage is released as it is.
DropString(name, s) == {[buf |-> name, content |-> s]}

\* Lines 168-169: line.zeroize(); self.input.read_line(&mut line).
ReadLine(buf, l) == Zeroize(buf) \o l

\* Accumulate with the two parts in the wrong order.
AccumulatePrepend(buf, decoded) ==
    Some(decoded \o (IF buf = None THEN <<>> ELSE buf[1]))

\* Lines 195-205: a new String holding the old buffer's content, then the
\* decoded line.
Accumulate(buf, decoded) ==
    Some((IF buf = None THEN <<>> ELSE buf[1]) \o decoded)

NoError == [tag |-> "", code |-> 0, description |-> None, kind |-> ""]
Ok(d) == [ok |-> TRUE, data |-> d, err |-> NoError]
Err(e) == [ok |-> FALSE, data |-> None, err |-> e]

Returned == {"return_ok", "return_err", "return_io", "return_parse", "return_utf8"}

Init ==
    /\ pc = "idle"
    /\ line = <<>>
    /\ data = None
    /\ result = None
    /\ released = {}
    /\ seen = <<>>
    /\ got = <<>>
    /\ nread = 0
    /\ ncalls = 0
    /\ EncodeIdle
    /\ ParseIdle
    /\ ConnIdle

\* Lines 160-162: read_response is entered; let mut line = String::new();
\* let mut data = None.
Call ==
    /\ pc \in {"idle"} \cup Returned
    /\ ncalls < MaxCalls
    /\ pc' = "loop"
    /\ line' = <<>>
    /\ data' = None
    /\ result' = None
    /\ released' = {}
    /\ seen' = <<>>
    /\ got' = <<>>
    /\ nread' = 0
    /\ ncalls' = ncalls + 1
    /\ UNCHANGED evars
    /\ UNCHANGED pvars
    /\ UNCHANGED cvars

\* Line 169: read_line fails and `?` returns the error; line and data go out
\* of scope.
ReadIoError(partial) ==
    /\ pc = "loop"
    /\ line' = ReadLine(line, partial)
    /\ released' = released \cup DropSecret("data", data) \cup DropString("line", line')
    /\ data' = None
    /\ result' = Some(Err(ErrIo("read_line")))
    /\ pc' = "return_io"
    /\ UNCHANGED <<seen, got, nread, ncalls>>
    /\ UNCHANGED evars
    /\ UNCHANGED pvars
    /\ UNCHANGED cvars

\* Lines 170-172: the line does not parse; `?` returns the io::Error built
\* from the parser's error.
ReadParseError(l, r) ==
    /\ pc = "loop"
    /\ r.kind = "ParseError"
    /\ line' = ReadLine(line, l)
    /\ released' = released \cup DropSecret("data", data) \cup DropString("line", line')
    /\ data' = None
    /\ result' = Some(Err(ErrIo("InvalidData")))
    /\ pc' = "return_parse"
    /\ got' = Append(got, l)
    /\ UNCHANGED <<seen, nread, ncalls>>
    /\ UNCHANGED evars
    /\ UNCHANGED pvars
    /\ UNCHANGED cvars

\* Line 237: the parser panics; the locals are dropped as the stack unwinds.
ReadPanic(l, r) ==
    /\ pc = "loop"
    /\ r.kind = "Panic"
    /\ line' = ReadLine(line, l)
    /\ released' = released \cup DropSecret("data", data) \cup DropString("line", line')
    /\ data' = None
    /\ result' = None
    /\ pc' = "panic"
    /\ got' = Append(got, l)
    /\ UNCHANGED <<seen, nread, ncalls>>
    /\ UNCHANGED evars
    /\ UNCHANGED pvars
    /\ UNCHANGED cvars

\* Lines 174-180: Response::Ok; line.zeroize(); return Ok(data).
ReadOk(l, r) ==
    /\ pc = "loop"
    /\ r.kind = "Ok"
    /\ line' = Zeroize(ReadLine(line, l))
    /\ released' = released \cup DropString("line", line')
    /\ result' = Some(Ok(data))
    /\ data' = None
    /\ pc' = "return_ok"
    /\ got' = Append(got, l)
    /\ UNCHANGED <<seen, nread, ncalls>>
    /\ UNCHANGED evars
    /\ UNCHANGED pvars
    /\ UNCHANGED cvars

\* Lines 181-187: Response::Err; line.zeroize(); buf.zeroize();
\* return Err(Error::from_parts(code, description)).
ReadErr(l, r) ==
    LET buf == IF data = None THEN None ELSE Some(Zeroize(data[1]))
    IN  /\ pc = "loop"
        /\ r.kind = "Err"
        /\ line' = Zeroize(ReadLine(line, l))
        /\ released' = released \cup DropSecret("data", buf) \cup DropString("line", line')
        /\ data' = None
        /\ result' = Some(Err(from_parts(r.code, r.opt)))
        /\ pc' = "return_err"
        /\ got' = Append(got, l)
        /\ UNCHANGED <<seen, nread, ncalls>>
        /\ UNCHANGED evars
        /\ UNCHANGED pvars
        /\ UNCHANGED cvars

\* The arms of Comment, Information and Inquire giving up the accumulated
\* data.
ReadIgnoredClears(l, r) ==
    /\ pc = "loop"
    /\ nread < MaxLines
    /\ r.kind \in {"Comment", "Information", "Inquire"}
    /\ line' = ReadLine(line, l)
    /\ got' = Append(got, l)
    /\ nread' = nread + 1
    /\ data' = None
    /\ UNCHANGED <<pc, result, released, seen, ncalls>>
    /\ UNCHANGED evars
    /\ UNCHANGED pvars
    /\ UNCHANGED cvars

\* Lines 188 and 211: Response::Comment, and Information or Inquire (the
\* catch-all arm): the line is logged and the loop goes on.
ReadIgnored(l, r) ==
    /\ pc = "loop"
    /\ nread < MaxLines
    /\ r.kind \in {"Comment", "Information", "Inquire"}
    /\ line' = ReadLine(line, l)
    /\ got' = Append(got, l)
    /\ nread' = nread + 1
    /\ UNCHANGED <<pc, data, result, released, seen, ncalls>>
    /\ UNCHANGED evars
    /\ UNCHANGED pvars
    /\ UNCHANGED cvars

\* The arm of DataLine without the zeroize of line 208: the owned decoded
\* copy is released as it is.
ReadDataKeepsCopy(l, r, d) ==
    /\ pc = "loop"
    /\ nread < MaxLines
    /\ r.kind = "DataLine"
    /\ d.ok
    /\ line' = ReadLine(line, l)
    /\ data' = Accumulate(data, d.bytes)
    /\ released' = released
          \cup DropSecret("data", data)
          \cup DropSecret("data_line", Some(r.text))
          \cup (IF d.owned THEN DropString("data_line_decoded", d.bytes) ELSE {})
    /\ seen' = Append(seen, l)
    /\ got' = Append(got, l)
    /\ nread' = nread + 1
    /\ UNCHANGED <<pc, result, ncalls>>
    /\ UNCHANGED evars
    /\ UNCHANGED pvars
    /\ UNCHANGED cvars

\* Lines 189-210: Response::DataLine whose content decodes: data becomes a new
\* buffer; the old buffer (buf), the parsed line (data_line) and an owned
\* decoded copy (zeroed at line 208) are released.
ReadData(l, r, d) ==
    /\ pc = "loop"
    /\ nread < MaxLines
    /\ r.kind = "DataLine"
    /\ d.ok
    /\ line' = ReadLine(line, l)
    /\ data' = Accumulate(data, d.bytes)
    /\ released' = released
          \cup DropSecret("data", data)
          \cup DropSecret("data_line", Some(r.text))
          \cup (IF d.owned THEN DropString("data_line_decoded", Zeroize(d.bytes)) ELSE {})
    /\ seen' = Append(seen, l)
    /\ got' = Append(got, l)
    /\ nread' = nread + 1
    /\ UNCHANGED <<pc, result, ncalls>>
    /\ UNCHANGED evars
    /\ UNCHANGED pvars
    /\ UNCHANGED cvars

\* Lines 189-192: Response::DataLine whose decoded bytes are not UTF-8:
\* decode_utf8 drops the bytes it decoded and `?` returns Error::Encoding;
\* buf (the old data), data_line and line go out of scope.
ReadBadUtf8(l, r, d) ==
    /\ pc = "loop"
    /\ r.kind = "DataLine"
    /\ ~d.ok
    /\ line' = ReadLine(line, l)
    /\ released' = released
          \cup DropSecret("data", data)
          \cup DropSecret("data_line", Some(r.text))
          \cup (IF d.owned THEN DropString("data_line_decoded", d.bytes) ELSE {})
          \cup DropString("line", line')
    /\ data' = None
    /\ result' = Some(Err(ErrEncoding))
    /\ pc' = "return_utf8"
    /\ got' = Append(got, l)
    /\ UNCHANGED <<seen, nread, ncalls>>
    /\ UNCHANGED evars
    /\ UNCHANGED pvars
    /\ UNCHANGED cvars

\* One iteration of the loop of lines 167-213 on the helper's next line l:
\* r is what server_response makes of the line buffer (line 170), d what
\* percent_decode_str(..).decode_utf8() makes of a DataLine's content (line 192).
ReadStep(l) ==
    \E r \in {server_response(ReadLine(line, l))} :
        \/ ReadParseError(l, r)
        \/ ReadPanic(l, r)
        \/ ReadOk(l, r)
        \/ ReadErr(l, r)
        \/ ReadIgnored(l, r)
        \/ \E d \in {decode_utf8(r.text)} : ReadData(l, r, d)
        \/ \E d \in {decode_utf8(r.text)} : ReadBadUtf8(l, r, d)

Next ==
    \/ Call
    \/ \E partial \in PartialLines : ReadIoError(partial)
    \/ \E l \in HelperLines : ReadStep(l)

Spec == Init /\ [][Next]_vars

(***************************************************************************)
(* Claims about Connection::read_response.                                 *)
(***************************************************************************)
\* The content of a D line as the helper sent it: the line without its "D "
\* and without its line ending.
DPayload(l) ==
    SubSeq(l, 3, IF Len(l) >= 2 /\ l[Len(l) - 1] = CR THEN Len(l) - 2 ELSE Len(l) - 1)

\* Every buffer of accumulated data the call has released was zeroed first.
DataZeroed == \A b \in released : b.buf = "data" => b.content = <<>>

\* C1: a cycle of n >= 0 D lines (comment, status and inquire lines between
\* them or not) ended by OK returns success; the data is absent when n = 0 and
\* else the concatenation, in order, of the percent-decoded contents.
C1_Aggregation ==
    pc = "return_ok" =>
        result = Some(Ok(IF seen = <<>> THEN None
                         ELSE Some(Flatten([i \in DOMAIN seen |->
                                               percent_decode(DPayload(seen[i]))]))))

\* C1's case: "D %41", another line, "D a" and OK returned "Aa".
C1_Witness ==
    /\ pc = "return_ok"
    /\ seen = << <<68, 32, 37, 52, 49, CR, LF>>, <<68, 32, 97, LF>> >>
    /\ nread = 3
    /\ result = Some(Ok(Some(<<65, 97>>)))

\* C2: a cycle ended by ERR returns an error and no data, and every buffer of
\* data accumulated in the cycle was zeroed before it was released.
C2_ErrDestroysData ==
    pc = "return_err" =>
        /\ ~result[1].ok
        /\ result[1].data = None
        /\ result[1].err.tag \in {"Cancelled", "Timeout", "Gpg"}
        /\ data = None
        /\ DataZeroed
        /\ seen # <<>> => \E b \in released : b.buf = "data"

\* C2's case: ERR arrived after two D lines.
C2_Witness ==
    /\ pc = "return_err"
    /\ Len(seen) = 2
    /\ \E b \in released : b.buf = "data"

\* C3: when the call fails otherwise (read_line fails, a line does not parse,
\* a D line does not decode to UTF-8) after D lines were accumulated, the
\* accumulated data was zeroed before it was released and none is returned.
C3_FailureDestroysData ==
    (pc \in {"return_io", "return_parse", "return_utf8"} /\ seen # <<>>) =>
        /\ ~result[1].ok
        /\ result[1].data = None
        /\ data = None
        /\ DataZeroed
        /\ \E b \in released : b.buf = "data"

\* C3's case: a D line that is not UTF-8 arrived after two D lines.
C3_Witness ==
    /\ pc = "return_utf8"
    /\ Len(seen) = 2
    /\ result = Some(Err(ErrEncoding))

\* C4: whenever read_response has returned, with data or with any error, the
\* line buffer holds no byte of a line it read.
C4_LineZeroedAtReturn ==
    pc \in Returned => line = <<>>

(***************************************************************************)
(* Claims about Error::from_parts and the ERR line's code.                 *)
(***************************************************************************)
\* The ERR lines of ParserInputs that are well formed, with their code field
\* (leading zeros included).
ErrLineCodes ==
    {[line |-> <<69, 82, 82, 32>> \o Zeros(k) \o ds \o d \o e, digits |-> Zeros(k) \o ds] :
        k \in 0..MaxLeadingZeros, ds \in CodeDigits, d \in Descriptions, e \in LineEndings}

RECURSIVE StripZeros(_)
StripZeros(ds) == IF Len(ds) > 1 /\ Head(ds) = 48 THEN StripZeros(Tail(ds)) ELSE ds

RECURSIVE DigitsLeq(_, _)
\* For digit strings of one length: a denotes at most what b denotes.
DigitsLeq(a, b) ==
    IF a = <<>> THEN TRUE
    ELSE IF Head(a) # Head(b) THEN Head(a) < Head(b)
    ELSE DigitsLeq(Tail(a), Tail(b))

\* The digits denote a value of at most 2^32 - 1 = 4294967295.
FitsU32(ds) ==
    LET d == StripZeros(ds)
    IN  \/ Len(d) < 10
        \/ Len(d) = 10 /\ DigitsLeq(d, <<52, 50, 57, 52, 57, 54, 55, 50, 57, 53>>)

RECURSIVE ValueMod(_, _, _)
\* The value the digits denote, modulo m (acc: the value of the digits read).
ValueMod(ds, m, acc) ==
    IF ds = <<>> THEN acc ELSE ValueMod(Tail(ds), m, (acc * 10 + (Head(ds) - 48)) % m)

\* C5: Error::from_parts maps code 62 to Timeout and code 99 to Cancelled
\* whatever the description, and every other code (114 included) to a Gpg error
\* with that code and that description.
C5_FromParts ==
    ppc = "classified" =>
        LET e == classified[1] IN
        /\ parsed.code = 62 => e = ErrTimeout
        /\ parsed.code = 99 => e = ErrCancelled
        /\ parsed.code \notin {62, 99} =>
              /\ e.tag = "Gpg"
              /\ e.code = parsed.code
              /\ e.description = parsed.opt

\* C5's case: code 114 with a description was classified.
C5_Witness ==
    /\ ppc = "classified"
    /\ parsed.code = 114
    /\ parsed.opt = Some(<<120>>)
    /\ classified[1].tag = "Gpg"

\* C6: an ERR line whose code field is a run of digits denoting a value v that
\* fits in 32 bits parses to Err with code = v mod 65536, and the error is
\* classified from that: Cancelled for 99, Timeout for 62, Gpg otherwise.
C6_LowSixteenBits ==
    \A el \in ErrLineCodes :
        (ppc # "input" /\ input = el.line /\ FitsU32(el.digits)) =>
            LET v == ValueMod(el.digits, 65536, 0) IN
            /\ parsed.kind = "Err"
            /\ parsed.code = v
            /\ ppc = "classified" =>
                  classified[1].tag = (IF v = 99 THEN "Cancelled"
                                       ELSE IF v = 62 THEN "Timeout" ELSE "Gpg")

\* C6's case: "ERR 65635\n" (65536 + 99) was parsed and classified as Cancelled.
C6_Witness ==
    /\ ppc = "classified"
    /\ input = <<69, 82, 82, 32, 54, 53, 54, 51, 53, LF>>
    /\ parsed.code = 99
    /\ classified[1] = ErrCancelled

(***************************************************************************)
(* Claims about encode_request.                                            *)
(***************************************************************************)
\* What the claims say a byte of the parameter becomes.
EscapedImage(b) ==
    CASE b = LF -> <<37, 48, 65>>
      [] b = CR -> <<37, 48, 68>>
      [] b = PERCENT -> <<37, 50, 53>>
      [] OTHER -> <<b>>

\* The command, followed for Some(p) by a space and the image of every byte of p.
EscapedText ==
    command \o (IF parameters = None THEN <<>>
                ELSE <<SPACE>> \o Flatten([i \in DOMAIN parameters[1] |->
                                              EscapedImage(parameters[1][i])]))

OneLineFeedAtEnd(buf) == Count(buf, LF) = 1 /\ buf[Len(buf)] = LF

\* C7 as stated: for every command and parameter, those containing line-feeds
\* included, the result holds exactly one line-feed, at its end.
C7_OneLineAnyCommand ==
    (epc # "call" /\ ~encoded.panic) => OneLineFeedAtEnd(encoded.buf)

\* C7, amended: for every command that contains no line-feed and every
\* parameter, those containing line-feeds or carriage-returns included, the
\* result holds exactly one line-feed, at its end.
C7_OneLine ==
    (epc # "call" /\ ~encoded.panic /\ Count(command, LF) = 0) =>
        OneLineFeedAtEnd(encoded.buf)

\* C7's case: a parameter with a line-feed and a carriage-return was encoded.
C7_Witness ==
    /\ epc = "returned"
    /\ Count(command, LF) = 0
    /\ parameters # None
    /\ Count(parameters[1], LF) > 0
    /\ Count(parameters[1], CR) > 0
    /\ ~encoded.panic

\* C8: the result is the command, a space, the parameter with each line-feed,
\* carriage-return and percent sign replaced by %0A, %0D and %25 and every
\* other byte kept in place (a trailing backslash apart), and a line-feed.
C8_EscapesThree ==
    (epc # "call" /\ parameters # None /\ ~encoded.panic) =>
        LET p == parameters[1]
            t == EscapedText
        IN  IF p # <<>> /\ p[Len(p)] = BACKSLASH
            THEN encoded.buf = SubSeq(t, 1, Len(t) - 1) \o <<37, 53, 67, LF>>
            ELSE encoded.buf = t \o <<LF>>

\* C8's case: a parameter holding all three escaped characters was encoded.
C8_Witness ==
    /\ epc = "returned"
    /\ parameters # None
    /\ Count(parameters[1], LF) = 1
    /\ Count(parameters[1], CR) = 1
    /\ Count(parameters[1], PERCENT) = 1
    /\ ~encoded.panic

\* C9: the byte before the final line-feed is never a backslash; when the
\* escaped text ends in a backslash, that backslash alone is replaced by %5C.
C9_NoTrailingBackslash ==
    (epc # "call" /\ ~encoded.panic) =>
        LET b == encoded.buf
            t == EscapedText
        IN  /\ b[Len(b)] = LF
            /\ Len(b) >= 2 => b[Len(b) - 1] # BACKSLASH
            /\ (t # <<>> /\ t[Len(t)] = BACKSLASH) =>
                  b = SubSeq(t, 1, Len(t) - 1) \o <<37, 53, 67, LF>>
            /\ ~(t # <<>> /\ t[Len(t)] = BACKSLASH) => b = t \o <<LF>>

\* C9's case: a parameter ending in two backslashes was encoded, and only the
\* last one was replaced.
C9_Witness ==
    /\ epc = "returned"
    /\ parameters # None
    /\ Len(parameters[1]) >= 2
    /\ SubSeq(parameters[1], Len(parameters[1]) - 1, Len(parameters[1]))
           = <<BACKSLASH, BACKSLASH>>
    /\ SubSeq(encoded.buf, Len(encoded.buf) - 4, Len(encoded.buf))
           = <<BACKSLASH, 37, 53, 67, LF>>

\* C10: the parameter portion of the encoded line, percent-decoded as the
\* content of a D line is, is the parameter text.
C10_RoundTrip ==
    epc = "decoded" =>
        /\ roundtrip[1].ok
        /\ roundtrip[1].bytes = parameters[1]

\* C10's case: the text "%41" went round, and came back as "%41", not "A".
C10_Witness ==
    /\ epc = "decoded"
    /\ parameters = Some(<<PERCENT, 52, 49>>)
    /\ encoded.buf = command \o <<SPACE, 37, 50, 53, 52, 49, LF>>
    /\ roundtrip[1].bytes = <<PERCENT, 52, 49>>

(***************************************************************************)
(* Claims about the grammar of read::server_response.                      *)
(***************************************************************************)
\* The line ends with a line-feed.
Terminated(i) == i # <<>> /\ i[Len(i)] = LF

\* The line without its terminator (LF, or CR LF).
Content(i) ==
    IF ~Terminated(i) THEN i
    ELSE IF Len(i) >= 2 /\ i[Len(i) - 1] = CR THEN SubSeq(i, 1, Len(i) - 2)
    ELSE SubSeq(i, 1, Len(i) - 1)

\* The six variants of Response.
Variants == {"Ok", "Err", "Information", "Comment", "DataLine", "Inquire"}

RECURSIVE LeadingDigits(_)
\* The run of decimal digits a text starts with.
LeadingDigits(s) ==
    IF s # <<>> /\ Head(s) \in 48..57 THEN <<Head(s)>> \o LeadingDigits(Tail(s)) ELSE <<>>

\* The variant whose prefix the content of a line starts with, the content
\* after the prefix being anything, the empty text included; "none" otherwise.
\* After OK comes nothing or a space; after "ERR " a run of digits that fits
\* 32 bits and then nothing or a space.
ShapeOf(c) ==
    IF c = <<79, 75>> \/ StartsWith(c, <<79, 75, 32>>) THEN "Ok"
    ELSE IF StartsWith(c, <<69, 82, 82, 32>>) THEN
        LET ds == LeadingDigits(Drop(c, 4))
            after == Drop(c, 4 + Len(ds))
        IN  IF ds # <<>> /\ FitsU32(ds) /\ (after = <<>> \/ Head(after) = SPACE)
            THEN "Err" ELSE "none"
    ELSE IF StartsWith(c, <<83, 32>>) THEN "Information"
    ELSE IF StartsWith(c, <<35, 32>>) THEN "Comment"
    ELSE IF StartsWith(c, <<68, 32>>) THEN "DataLine"
    ELSE IF StartsWith(c, <<73, 78, 81, 85, 73, 82, 69, 32>>) THEN "Inquire"
    ELSE "none"

\* The line starts with none of the six prefixes.
NoPrefix(i) ==
    \A p \in {<<79, 75>>, <<69, 82, 82, 32>>, <<83, 32>>, <<35, 32>>, <<68, 32>>,
              <<73, 78, 81, 85, 73, 82, 69, 32>>} : ~StartsWith(i, p)

\* C12: every terminated line that starts with one of the six prefixes, the
\* content after the prefix being empty included ("OK ", "D "), parses to the
\* corresponding variant (a comment or data line with the rest of the line as
\* its text); a line that starts with none of them is a parse error.
C12_PrefixedLinesParse ==
    ppc # "input" =>
        LET c == Content(input) IN
        /\ (Terminated(input) /\ ShapeOf(c) # "none") =>
              /\ parsed.kind = ShapeOf(c)
              /\ parsed.kind \in {"Comment", "DataLine"} => parsed.text = Drop(c, 2)
        /\ NoPrefix(input) => parsed.kind = "ParseError"

\* The text of a line that parses to the Response r, the code of an Err
\* taken from the line c (the Response keeps only its low 16 bits).
Render(r, c) ==
    LET optf == IF r.opt = None THEN <<>> ELSE <<SPACE>> \o r.opt[1]
    IN  CASE r.kind = "Ok" -> <<79, 75>> \o optf
          [] r.kind = "Err" -> <<69, 82, 82, 32>> \o LeadingDigits(Drop(c, 4)) \o optf
          [] r.kind = "Information" -> <<83, 32>> \o r.text \o optf
          [] r.kind = "Comment" -> <<35, 32>> \o r.text
          [] r.kind = "DataLine" -> <<68, 32>> \o r.text
          [] r.kind = "Inquire" -> <<73, 78, 81, 85, 73, 82, 69, 32>> \o r.text \o optf
          [] OTHER -> <<>>

\* C13: a line is classified as one of the six variants only when it is
\* terminated and its content is exactly the prefix and the extracted fields
\* (nothing lies between the matched content and the terminator, as in
\* "OKAY"); a line with no terminator is a decode failure; and the content
\* terminated by LF and by CR LF parses to the same Response.
C13_TerminatorRequired ==
    ppc # "input" =>
        /\ parsed.kind \in Variants =>
              /\ Terminated(input)
              /\ Render(parsed, Content(input)) = Content(input)
        /\ ~Terminated(input) => parsed.kind \in {"ParseError", "Panic"}
        /\ input = <<79, 75, 65, 89, LF>> => parsed.kind = "ParseError"
        /\ Terminated(input) =>
              \A e \in LineEndings : server_response(Content(input) \o e) = parsed

\* C13's case: "OK" cut short by the end of input was given to the parser.
C13_Witness ==
    /\ ppc = "parsed"
    /\ input = <<79, 75>>
    /\ parsed.kind = "ParseError"

(***************************************************************************)
(* Specification SpecConn: one dialog of the crate on a Unix or a non-Unix *)
(* build.  PassphraseInput::interact or ConfirmationDialog::confirm opens  *)
(* a Connection (assuan.rs 82-148), sends its requests with send_request   *)
(* (assuan.rs 150-158), returns, and the Connection is dropped (assuan.rs  *)
(* 217-221).  The helper is the environment: it sends a greeting when it   *)
(* is spawned and a reply to a request it has received, or it exits, or it *)
(* does nothing.                                                           *)
(***************************************************************************)
\* The command keywords, as bytes.
OPTION == <<79, 80, 84, 73, 79, 78>>    \* assuan.rs 144
SETTITLE == <<83, 69, 84, 84, 73, 84, 76, 69>>    \* lib.rs 234
SETDESC == <<83, 69, 84, 68, 69, 83, 67>>    \* lib.rs 237
SETERROR == <<83, 69, 84, 69, 82, 82, 79, 82>>    \* lib.rs 240
SETPROMPT == <<83, 69, 84, 80, 82, 79, 77, 80, 84>>    \* lib.rs 243
SETOK == <<83, 69, 84, 79, 75>>    \* lib.rs 246
SETCANCEL == <<83, 69, 84, 67, 65, 78, 67, 69, 76>>    \* lib.rs 249
SETNOTOK == <<83, 69, 84, 78, 79, 84, 79, 75>>    \* lib.rs 398
SETREPEAT == <<83, 69, 84, 82, 69, 80, 69, 65, 84>>    \* lib.rs 252
SETREPEATERROR == <<83, 69, 84, 82, 69, 80, 69, 65, 84, 69, 82, 82, 79, 82>>    \* lib.rs 253
SETTIMEOUT == <<83, 69, 84, 84, 73, 77, 69, 79, 85, 84>>    \* lib.rs 256
GETPIN == <<71, 69, 84, 80, 73, 78>>    \* lib.rs 260
CONFIRM == <<67, 79, 78, 70, 73, 82, 77>>    \* lib.rs 405
BYE == <<66, 89, 69>>    \* assuan.rs 219

\* format!("ttyname={tty_name}") and format!("ttytype={tty_type}") (lines 144-145).
ttyname_eq == <<116, 116, 121, 110, 97, 109, 101, 61>>
ttytype_eq == <<116, 116, 121, 116, 121, 112, 101, 61>>
\* "/dev/tty" (line 136) and "xterm-256color" (line 141).
DefaultTtyName == <<47, 100, 101, 118, 47, 116, 116, 121>>
DefaultTtyType == <<120, 116, 101, 114, 109, 45, 50, 53, 54, 99, 111, 108, 111, 114>>

\* What the loop of read_response returned, or that it blocks in read_line
\* (done is FALSE) or panicked: n lines were read.
Returns(n, res) == [done |-> TRUE, panic |-> FALSE, n |-> n, result |-> res]
Blocks(n) == [done |-> FALSE, panic |-> FALSE, n |-> n, result |-> Ok(None)]
Panics(n) == [done |-> TRUE, panic |-> TRUE, n |-> n, result |-> Ok(None)]

RECURSIVE read_lines(_, _, _)
\* The loop of read_response (lines 167-213) over the lines read_line can
\* return without blocking, n lines being read and acc being the accumulated
\* data: the match of line 173 on the parsed line r.
read_lines(avail, n, acc) ==
    IF avail = <<>> THEN Blocks(n)
    ELSE CHOOSE ret \in
           { CASE r.kind = "ParseError" -> Returns(n + 1, Err(ErrIo("InvalidData")))
               [] r.kind = "Panic" -> Panics(n + 1)
               [] r.kind = "Ok" -> Returns(n + 1, Ok(acc))
               [] r.kind = "Err" -> Returns(n + 1, Err(from_parts(r.code, r.opt)))
               [] r.kind = "DataLine" ->
                     IF decode_utf8(r.text).ok
                     THEN read_lines(Tail(avail), n + 1,
                                     Accumulate(acc, decode_utf8(r.text).bytes))
                     ELSE Returns(n + 1, Err(ErrEncoding))
               [] OTHER -> read_lines(Tail(avail), n + 1, acc)
             : r \in {server_response(Head(avail))} } : TRUE

\* read_response entered with data already accumulated.
read_response_carrying(avail) == read_lines(avail, 0, Some(<<97>>))

\* read_response (lines 160-214): let mut data = None, then the loop.
read_response(avail) == read_lines(avail, 0, None)

\* A request: the arguments of one send_request call.
Req(cmd, params) == [command |-> cmd, parameters |-> params]

\* One request when the field is set (`if let Some(..) = &self.field`).
IfSet(field, cmd) == IF field = None THEN <<>> ELSE <<Req(cmd, field)>>

\* Some(&format!("{}", timeout)) (lib.rs 256, 401).
IfSetTimeout(field) ==
    IF field = None THEN <<>> ELSE <<Req(SETTIMEOUT, Some(Dec(field[1])))>>

\* open_requests with the two OPTION requests in the other order.
open_requests_swapped(c) ==
    IF ~c.unix THEN <<>>
    ELSE <<Req(OPTION, Some(ttytype_eq \o (IF c.tty_type # None THEN c.tty_type[1]
                                           ELSE IF c.term # None THEN c.term[1]
                                           ELSE DefaultTtyType))),
           Req(OPTION, Some(ttyname_eq \o (IF c.tty_name = None THEN DefaultTtyName
                                           ELSE c.tty_name[1])))>>

\* open_ex after the handshake (lines 135-145): the two OPTION requests;
\* open of a non-Unix build (lines 82-95) sends none.
open_requests(c) ==
    IF ~c.unix THEN <<>>
    ELSE LET tty_name == IF c.tty_name = None THEN DefaultTtyName ELSE c.tty_name[1]
             tty_type == IF c.tty_type # None THEN c.tty_type[1]
                         ELSE IF c.term # None THEN c.term[1]
                         ELSE DefaultTtyType
         IN  <<Req(OPTION, Some(ttyname_eq \o tty_name)),
               Req(OPTION, Some(ttytype_eq \o tty_type))>>

\* The requests of interact with SETTIMEOUT sent first.
interact_requests_reordered(c) ==
    IfSetTimeout(c.timeout)
        \o IfSet(c.title, SETTITLE) \o IfSet(c.description, SETDESC)
        \o IfSet(c.error, SETERROR) \o IfSet(c.prompt, SETPROMPT)
        \o IfSet(c.ok, SETOK) \o IfSet(c.cancel, SETCANCEL)
        \o (IF c.confirmation = None THEN <<>>
            ELSE <<Req(SETREPEAT, Some(c.confirmation[1].prompt)),
                   Req(SETREPEATERROR, Some(c.confirmation[1].mismatch))>>)

\* PassphraseInput::interact before its loop (lib.rs 233-257).
interact_requests(c) ==
    IfSet(c.title, SETTITLE) \o IfSet(c.description, SETDESC)
        \o IfSet(c.error, SETERROR) \o IfSet(c.prompt, SETPROMPT)
        \o IfSet(c.ok, SETOK) \o IfSet(c.cancel, SETCANCEL)
        \o (IF c.confirmation = None THEN <<>>
            ELSE <<Req(SETREPEAT, Some(c.confirmation[1].prompt)),
                   Req(SETREPEATERROR, Some(c.confirmation[1].mismatch))>>)
        \o IfSetTimeout(c.timeout)

\* ConfirmationDialog::confirm before CONFIRM (lib.rs 390-402); the query is
\* the description.
confirm_requests(c) ==
    <<Req(SETDESC, c.description)>>
        \o IfSet(c.ok, SETOK) \o IfSet(c.cancel, SETCANCEL)
        \o IfSet(c.not_ok, SETNOTOK) \o IfSetTimeout(c.timeout)

dialog_requests(c) ==
    IF c.fn = "interact" THEN interact_requests(c) ELSE confirm_requests(c)

\* A position of the dialog function: the statement, the index of the
\* request for "option" and "set", and whether the request has been written
\* and send_request is in read_response.
At(stmt, k, wait) == [stmt |-> stmt, k |-> k, wait |-> wait]

\* The last statement of the dialog function (lib.rs 260, 405).
final_stmt(c) == IF c.fn = "interact" THEN "getpin" ELSE "confirm"

\* The first statement from the k-th request of the dialog function on.
dialog_from(c, k) ==
    IF k <= Len(dialog_requests(c)) THEN At("set", k, FALSE)
    ELSE At(final_stmt(c), 0, FALSE)

\* The first statement of open / open_ex from its k-th OPTION request on;
\* after the last, Ok(conn) is returned to the dialog function.
open_from(c, k) ==
    IF k <= Len(open_requests(c)) THEN At("option", k, FALSE) ELSE dialog_from(c, 1)

\* The request the statement at p sends.
request_at(p, c) ==
    CASE p.stmt = "option" -> open_requests(c)[p.k]
      [] p.stmt = "set" -> dialog_requests(c)[p.k]
      [] p.stmt = "getpin" -> Req(GETPIN, None)
      [] p.stmt = "seterror" -> Req(SETERROR, c.required)
      [] p.stmt = "confirm" -> Req(CONFIRM, None)
      [] p.stmt = "bye" -> Req(BYE, None)
      [] OTHER -> Req(<<>>, None)

\* What a dialog function returns: Result<SecretString> of interact (data),
\* Result<bool> of confirm (flag).
DialogOk(d, flag) == [ok |-> TRUE, data |-> d, flag |-> flag, err |-> NoError]
DialogErr(e) == [ok |-> FALSE, data |-> None, flag |-> FALSE, err |-> e]

\* Where the dialog function goes next: a position to continue at, or a
\* value to return.
GoOn(p) == [return |-> FALSE, to |-> p, value |-> DialogErr(NoError)]
Return(v) == [return |-> TRUE, to |-> At("bye", 0, FALSE), value |-> v]

\* The match of the loop of interact without its third arm: no data is
\* the empty passphrase, required or not.
getpin_match_no_retry(c, d) ==
    IF d = None THEN Return(DialogOk(Some(<<>>), FALSE))
    ELSE Return(DialogOk(d, FALSE))

\* The match of the loop of interact (lib.rs 260-268) on the Ok of GETPIN.
getpin_match(c, d) ==
    IF d = None /\ c.required = None THEN Return(DialogOk(Some(<<>>), FALSE))
    ELSE IF d # None THEN Return(DialogOk(d, FALSE))
    ELSE GoOn(At("seterror", 0, FALSE))

\* The or_else of confirm with its two arms exchanged.
confirm_or_else_swapped(c, e) ==
    IF e.tag = "Cancelled" /\ c.not_ok # None THEN Return(DialogOk(None, FALSE))
    ELSE IF e.tag = "Gpg" /\ c.not_ok = None /\ e.code = GPG_ERR_NOT_CONFIRMED
    THEN Return(DialogOk(None, FALSE))
    ELSE Return(DialogErr(e))

\* The or_else of confirm (lib.rs 407-411) on the Err of CONFIRM.
confirm_or_else(c, e) ==
    IF e.tag = "Cancelled" /\ c.not_ok = None THEN Return(DialogOk(None, FALSE))
    ELSE IF e.tag = "Gpg" /\ c.not_ok # None /\ e.code = GPG_ERR_NOT_CONFIRMED
    THEN Return(DialogOk(None, FALSE))
    ELSE Return(DialogErr(e))

\* What follows the cycle of the statement at p, which returned res: `?`
\* returns an Err from open and from the dialog function alike.
after_cycle(p, c, res) ==
    CASE p.stmt = "bye" -> GoOn(At("done", 0, FALSE))
      [] p.stmt = "confirm" ->
            IF res.ok THEN Return(DialogOk(None, TRUE)) ELSE confirm_or_else(c, res.err)
      [] p.stmt # "bye" /\ p.stmt # "confirm" /\ ~res.ok -> Return(DialogErr(res.err))
      [] p.stmt = "handshake" /\ res.ok -> GoOn(open_from(c, 1))
      [] p.stmt = "option" /\ res.ok -> GoOn(open_from(c, p.k + 1))
      [] p.stmt = "set" /\ res.ok -> GoOn(dialog_from(c, p.k + 1))
      [] p.stmt = "getpin" /\ res.ok -> getpin_match(c, res.data)
      [] p.stmt = "seterror" /\ res.ok -> GoOn(At("getpin", 0, FALSE))

\* The replies of the helper to one request, and its greeting: the lines up
\* to a terminal OK or ERR line, and one that stops short of the terminal
\* line ("INQUIRE k") and is followed by one of the others.
\* "ERR 83886179" is the cancellation of pinentry (its low 16 bits are 99).
Replies ==
    { <<<<79, 75, LF>>>>,
      <<<<73, 78, 81, 85, 73, 82, 69, 32, 107, LF>>>>,
      <<<<68, 32, 97, LF>>, <<79, 75, LF>>>>,
      <<<<69, 82, 82, 32, 56, 51, 56, 56, 54, 49, 55, 57, 32, 99, LF>>>>,
      <<<<69, 82, 82, 32, 49, 49, 52, LF>>>>,
      <<<<69, 82, 82, 32, 54, 50, LF>>>>,
      <<<<69, 82, 82, 32, 53, 32, 120, LF>>>>,
      <<<<69, 82, 82, 32, 52, 50, 57, 52, 57, 54, 55, 50, 57, 54, LF>>>>,
      <<<<68, 32, 97, LF>>, <<68, 32, 37, 70, 70, LF>>, <<79, 75, LF>>>>,
      <<<<88, LF>>, <<79, 75, LF>>>> }

\* A text of n bytes 'a'.
Long(n) == [i \in 1..n |-> 97]

\* The longest description SETDESC can carry: "SETDESC", a space, the text
\* and the line-feed make MaxLineBytes bytes.
LongestDesc == Long(MaxLineBytes - Len(SETDESC) - 2)

\* A dialog with no optional field set, on a Unix build.
Plain(fn) == [NoDialog EXCEPT !.fn = fn, !.unix = TRUE]

\* The dialogs of the model.
Dialogs ==
    LET i == Plain("interact")
        r == [i EXCEPT !.required = Some(<<114>>)]
        c == [Plain("confirm") EXCEPT !.description = Some(<<113, 63>>)]
        n == [c EXCEPT !.not_ok = Some(<<110>>)]
    IN  { i, r,
          [i EXCEPT !.unix = FALSE],
          [i EXCEPT !.term = Some(<<118, 116, 49, 48, 48>>)],
          [r EXCEPT !.tty_name = Some(<<47, 100, 101, 118, 47, 112, 116, 115, 47, 49>>), !.tty_type = Some(<<120, 116, 101, 114, 109>>), !.term = Some(<<118, 116, 49, 48, 48>>)],
          [r EXCEPT !.description = Some(<<97, 10, 98>>), !.timeout = Some(30)],
          [i EXCEPT !.title = Some(<<116>>), !.description = Some(<<100>>),
                    !.error = Some(<<101>>), !.prompt = Some(<<112>>),
                    !.ok = Some(<<111>>), !.cancel = Some(<<99>>), !.timeout = Some(7),
                    !.confirmation = Some([prompt |-> <<112>>, mismatch |-> <<101>>])],
          [i EXCEPT !.description = Some(LongestDesc)],
          [i EXCEPT !.description = Some(LongestDesc \o <<97>>)],
          [i EXCEPT !.description = Some(Long(MaxLineBytes - Len(SETDESC) - 4) \o <<LF>>)],
          c, n,
          [c EXCEPT !.unix = FALSE],
          [n EXCEPT !.ok = Some(<<111>>), !.cancel = Some(<<99>>), !.timeout = Some(5)],
          [c EXCEPT !.description = Some(LongestDesc \o <<97>>)] }

InitConn ==
    /\ cpc = At("spawn", 0, FALSE)
    /\ cfg \in Dialogs
    /\ wire = <<>>
    /\ pending = <<>>
    /\ helper = "none"
    /\ answered = 0
    /\ calls = <<>>
    /\ outcome = None
    /\ unwinding = FALSE
    /\ EncodeIdle
    /\ ParseIdle
    /\ ReadIdle

\* command.spawn() succeeds (line 126) and the Connection is built (line
\* 131); conn.read_response() is entered (line 133).
Spawn ==
    /\ cpc.stmt = "spawn"
    /\ helper' = "running"
    /\ cpc' = At("handshake", 0, TRUE)
    /\ UNCHANGED <<cfg, wire, pending, answered, calls, outcome, unwinding>>
    /\ UNCHANGED <<evars, pvars, rvars>>

\* command.spawn()? fails (line 126): open returns the error; there is no
\* Connection to drop.
SpawnFails ==
    /\ cpc.stmt = "spawn"
    /\ outcome' = Some(DialogErr(ErrIo("spawn")))
    /\ cpc' = At("done", 0, FALSE)
    /\ UNCHANGED <<cfg, wire, pending, helper, answered, calls, unwinding>>
    /\ UNCHANGED <<evars, pvars, rvars>>

\* A cycle as the log keeps it.
Cycle(p, res, panicked) ==
    [stmt |-> p.stmt, request |-> request_at(p, cfg), result |-> res, panicked |-> panicked]

\* The GETPIN requests made so far.
Prompts == Cardinality({i \in DOMAIN calls : calls[i].stmt = "getpin"})

\* The cycle of the statement at p has returned res: the dialog function
\* goes on or returns, and when it returns the Connection is dropped.  The
\* drop at the end of an unwinding leaves the panic to go on.
Finish(p, res) ==
    \E nx \in {after_cycle(p, cfg, res)} :
        /\ calls' = Append(calls, Cycle(p, res, FALSE))
        /\ cpc' = IF p.stmt = "bye" /\ unwinding THEN At("aborted", 0, FALSE) ELSE nx.to
        /\ outcome' = IF nx.return THEN Some(nx.value) ELSE outcome

\* A panic in the statement at p (the assert of line 73, the expect of line
\* 237).  Outside drop the stack unwinds and drops the Connection, or the
\* build aborts on panic; a panic inside drop ends the dialog at once.
Panic(p) ==
    /\ calls' = Append(calls, Cycle(p, Err(NoError), TRUE))
    /\ unwinding' = TRUE
    /\ \/ p.stmt # "bye" /\ cpc' = At("bye", 0, FALSE)
       \/ cpc' = At("aborted", 0, FALSE)
    /\ UNCHANGED outcome

\* send_request is called at p: p is a statement that sends, and the loop of
\* interact is cut off after MaxPrompts GETPIN requests.
Sending(p) ==
    /\ p.stmt \in {"option", "set", "getpin", "seterror", "confirm", "bye"}
    /\ ~p.wait
    /\ p.stmt = "getpin" => Prompts < MaxPrompts

\* let buf = encode_request(command, parameters) (line 155) for the request
\* of the statement the dialog is at.
Encoded == encode_request(request_at(cpc, cfg).command, request_at(cpc, cfg).parameters)

\* Line 155: encode_request panics; nothing is written.
SendPanics ==
    \E e \in {Encoded} :
        /\ Sending(cpc)
        /\ e.panic
        /\ Panic(cpc)
        /\ UNCHANGED <<cfg, wire, pending, helper, answered>>
        /\ UNCHANGED <<evars, pvars, rvars>>

\* Line 156: write_all(..)? fails, the helper having exited.
SendWriteFails ==
    \E e \in {Encoded} :
        /\ Sending(cpc)
        /\ ~e.panic
        /\ helper = "exited"
        /\ Finish(cpc, Err(ErrIo("BrokenPipe")))
        /\ UNCHANGED <<cfg, wire, pending, helper, answered, unwinding>>
        /\ UNCHANGED <<evars, pvars, rvars>>

\* Lines 155-157: the buffer is written and read_response is entered.
SendWrites ==
    \E e \in {Encoded} :
        /\ Sending(cpc)
        /\ ~e.panic
        /\ helper = "running"
        /\ wire' = Append(wire, e.buf)
        /\ cpc' = [cpc EXCEPT !.wait = TRUE]
        /\ UNCHANGED <<cfg, pending, helper, answered, calls, outcome, unwinding>>
        /\ UNCHANGED <<evars, pvars, rvars>>

\* Connection::send_request (lines 150-158) up to its read_response, called
\* by open_ex, by the dialog function or by drop.
send_request == SendPanics \/ SendWriteFails \/ SendWrites

\* What read_line could return if it waited at the end of input as it
\* waits for a running helper.
AvailableNoEnd == [i \in 1..Len(pending) |-> pending[i].line]

\* What read_line can return without blocking: the unread lines, and
\* nothing more (Ok(0), an empty line) once the helper has exited.
Available ==
    [i \in 1..Len(pending) |-> pending[i].line]
        \o (IF helper = "exited" THEN <<<<>>>> ELSE <<>>)

\* The unread lines after n reads.
Unread(n) == SubSeq(pending, n + 1, Len(pending))

\* read_response returning Ok(None) as soon as no line is left to read.
CycleReturnsEarly ==
    \E rr \in {read_response(Available)} :
        /\ cpc.wait
        /\ Available # <<>>
        /\ ~rr.panic
        /\ pending' = Unread(rr.n)
        /\ Finish(cpc, rr.result)
        /\ UNCHANGED <<cfg, wire, helper, answered, unwinding>>
        /\ UNCHANGED <<evars, pvars, rvars>>

\* read_response returns (lines 179, 186, or the `?` of 169-192).
CycleReturns ==
    \E rr \in {read_response(Available)} :
        /\ cpc.wait
        /\ rr.done
        /\ ~rr.panic
        /\ pending' = Unread(rr.n)
        /\ Finish(cpc, rr.result)
        /\ UNCHANGED <<cfg, wire, helper, answered, unwinding>>
        /\ UNCHANGED <<evars, pvars, rvars>>

\* read_response panics in the parser (line 237).
CyclePanics ==
    \E rr \in {read_response(Available)} :
        /\ cpc.wait
        /\ rr.done
        /\ rr.panic
        /\ pending' = Unread(rr.n)
        /\ Panic(cpc)
        /\ UNCHANGED <<cfg, wire, helper, answered>>
        /\ UNCHANGED <<evars, pvars, rvars>>

\* The dialog function has returned or the panic has left it.
Over == cpc.stmt \in {"done", "aborted"}

\* The cycles so far that returned data, and whether a reply carries some.
DataCycles == Cardinality({i \in DOMAIN calls : calls[i].result.data # None})
HasData(reply) == read_lines(reply \o <<<<79, 75, LF>>>>, 0, None).result.data # None

\* The lines of the reply end the cycle that reads them.
Complete(reply) == read_response(reply).done

\* The helper writes its greeting, or its reply to the oldest request it has
\* not answered, or once the beginning of that reply.  The model follows
\* the helper until the dialog is over.
HelperReplies(reply) ==
    /\ helper = "running"
    /\ ~Over
    /\ answered <= Len(wire)
    /\ HasData(reply) => DataCycles < MaxDataReplies
    /\ ~Complete(reply) => \A i \in DOMAIN pending : pending[i].req # answered
    /\ pending' = pending \o [i \in 1..Len(reply) |-> [line |-> reply[i], req |-> answered]]
    /\ answered' = IF Complete(reply) THEN answered + 1 ELSE answered
    /\ UNCHANGED <<cpc, cfg, wire, helper, calls, outcome, unwinding>>
    /\ UNCHANGED <<evars, pvars, rvars>>

\* The helper exits: its end of both pipes is closed.
HelperExits ==
    /\ helper = "running"
    /\ ~Over
    /\ helper' = "exited"
    /\ UNCHANGED <<cpc, cfg, wire, pending, answered, calls, outcome, unwinding>>
    /\ UNCHANGED <<evars, pvars, rvars>>

NextConn ==
    \/ Spawn
    \/ SpawnFails
    \/ send_request
    \/ CycleReturns
    \/ CyclePanics
    \/ \E reply \in Replies : HelperReplies(reply)
    \/ HelperExits

SpecConn == InitConn /\ [][NextConn]_vars

\* The steps of the client: the dialog function, send_request, read_response
\* and the drop.
ClientNext == Spawn \/ SpawnFails \/ send_request \/ CycleReturns \/ CyclePanics

(***************************************************************************)
(* Claims about one dialog on a connection (SpecConn).                     *)
(***************************************************************************)
\* The length of the line of a request: the command, for Some(p) a space and
\* p with three bytes for each line-feed, carriage-return and percent sign,
\* three bytes for a last backslash, and the line-feed.
LineLen(req) ==
    LET text == req.command \o (IF req.parameters = None THEN <<>>
                                ELSE <<SPACE>> \o req.parameters[1])
        escapes == IF req.parameters = None THEN 0
                   ELSE Count(req.parameters[1], LF) + Count(req.parameters[1], CR)
                            + Count(req.parameters[1], PERCENT)
        last == IF text # <<>> /\ text[Len(text)] = BACKSLASH THEN 2 ELSE 0
    IN  Len(text) + 2 * escapes + last + 1

\* The step is a call of send_request up to its read_response.
SendStep == Sending(cpc) /\ cpc' # cpc

\* C11: a send_request whose line would be longer than 1000 bytes panics and
\* writes nothing; one whose line is 1000 bytes or shorter writes, the helper
\* running, the whole line as one buffer: all its bytes, beginning with the
\* command and holding one line-feed, its last byte.
C11_LineLengthGuard ==
    [][SendStep =>
          LET req == request_at(cpc, cfg) IN
          IF LineLen(req) > MaxLineBytes
          THEN /\ wire' = wire
               /\ unwinding'
               /\ calls'[Len(calls')].panicked
          ELSE helper = "running" =>
                  /\ Len(wire') = Len(wire) + 1
                  /\ SubSeq(wire', 1, Len(wire)) = wire
                  /\ Len(wire'[Len(wire')]) = LineLen(req)
                  /\ StartsWith(wire'[Len(wire')], req.command)
                  /\ OneLineFeedAtEnd(wire'[Len(wire')])
                  /\ ~unwinding' \/ unwinding]_vars

\* C11's case: SETDESC with a description one byte too long has panicked
\* after the two OPTION requests, and nothing but these two was written.
C11_Witness ==
    /\ calls # <<>>
    /\ calls[Len(calls)].panicked
    /\ calls[Len(calls)].request.command = SETDESC
    /\ LineLen(calls[Len(calls)].request) = MaxLineBytes + 1
    /\ Len(wire) = 2

\* C14: whenever a request has been written, every line the helper has sent
\* and the client has not read answers that request (the greeting answers
\* request 0): no request is written while a line of an earlier cycle, its
\* terminal OK or ERR line included, is unread, also after a call that
\* returned an error and for the BYE of the drop.
C14_OneCycleInFlight ==
    \A i \in DOMAIN pending : pending[i].req = Len(wire)

\* The line of the BYE request.
ByeLine == BYE \o <<LF>>

\* The requests written other than BYE: OPTION and dialog commands.
Commanded == {i \in DOMAIN wire : wire[i] # ByeLine}

\* The first cycle, that of the greeting, is over and did not end with OK.
GreetingFailed ==
    /\ calls # <<>>
    /\ calls[1].stmt = "handshake"
    /\ calls[1].panicked \/ ~calls[1].result.ok

\* C15: an OPTION or dialog command is written only after the cycle of the
\* greeting has ended with OK; when that cycle ends with an ERR line or a
\* malformed line, no OPTION or dialog command is ever written and open
\* returns an error: the dialog ends by returning the error of that cycle.
C15_HandshakeFirst ==
    /\ Commanded # {} =>
          /\ calls # <<>>
          /\ calls[1].stmt = "handshake"
          /\ calls[1].result.ok
          /\ ~calls[1].panicked
    /\ GreetingFailed =>
          /\ Commanded = {}
          /\ Over => /\ cpc.stmt = "done"
                     /\ outcome = Some(DialogErr(calls[1].result.err))

\* The terminal name and type the claim names for the dialog.
ClaimedTtyName == IF cfg.tty_name = None THEN DefaultTtyName ELSE cfg.tty_name[1]
ClaimedTtyType ==
    IF cfg.tty_type # None THEN cfg.tty_type[1]
    ELSE IF cfg.term # None THEN cfg.term[1]
    ELSE DefaultTtyType

\* The lines of the two OPTION requests (none of the names of the model needs
\* an escape).
TtyNameLine == OPTION \o <<SPACE>> \o ttyname_eq \o ClaimedTtyName \o <<LF>>
TtyTypeLine == OPTION \o <<SPACE>> \o ttytype_eq \o ClaimedTtyType \o <<LF>>

\* C16: on Unix, after the greeting cycle ended with OK, the first request
\* written is OPTION ttyname=<name> and its cycle is the second cycle; when it
\* returned Ok the next request written is OPTION ttytype=<type> and its cycle
\* the third, and only when that returned Ok too is anything but BYE written
\* after them; when either cycle returned an error, the request written next
\* is BYE and the dialog function returns that error.
C16_TwoOptions ==
    cfg.unix =>
        /\ Len(wire) >= 1 /\ wire[1] # ByeLine =>
              /\ wire[1] = TtyNameLine
              /\ calls[1].stmt = "handshake" /\ calls[1].result.ok
        /\ (Len(calls) >= 2 /\ calls[1].result.ok /\ ~calls[1].panicked) =>
              /\ calls[2].stmt = "option"
              /\ calls[2].request = Req(OPTION, Some(ttyname_eq \o ClaimedTtyName))
        /\ (Len(wire) >= 2 /\ wire[1] # ByeLine /\ wire[2] # ByeLine) =>
              /\ wire[2] = TtyTypeLine
              /\ Len(calls) >= 2 /\ calls[2].result.ok /\ ~calls[2].panicked
        /\ (Len(calls) >= 3 /\ calls[2].stmt = "option" /\ calls[2].result.ok
                /\ ~calls[2].panicked) =>
              /\ calls[3].stmt = "option"
              /\ calls[3].request = Req(OPTION, Some(ttytype_eq \o ClaimedTtyType))
        /\ (Len(wire) >= 3 /\ wire[1] # ByeLine /\ wire[2] # ByeLine /\ wire[3] # ByeLine) =>
              /\ Len(calls) >= 3 /\ calls[3].result.ok /\ ~calls[3].panicked
              /\ ~StartsWith(wire[3], OPTION \o <<SPACE>>)
        /\ \A k \in {2, 3} :
              (Len(calls) >= k /\ calls[k].stmt = "option" /\ ~calls[k].result.ok
                    /\ ~calls[k].panicked) =>
                 /\ outcome = Some(DialogErr(calls[k].result.err))
                 /\ \A i \in DOMAIN wire : i >= k => wire[i] = ByeLine
                 /\ \A i \in DOMAIN calls : i > k => calls[i].stmt = "bye"

\* C16's case: OPTION ttyname= with the default name ended with OK, OPTION
\* ttytype= with the value of TERM ended with ERR 5, and the dialog is over.
C16_Witness ==
    /\ cpc.stmt = "done"
    /\ cfg.tty_type = None /\ cfg.term # None
    /\ Len(calls) = 4
    /\ calls[2].result.ok
    /\ calls[3].stmt = "option"
    /\ calls[3].result.err.tag = "Gpg"
    /\ wire = <<TtyNameLine, TtyTypeLine, ByeLine>>

\* The cycles of BYE requests, in a log of cycles.
ByeCycles(log) == {i \in DOMAIN log : log[i].stmt = "bye"}

\* C17: the drop of a Connection makes one BYE request, no request is written
\* after BYE, and whatever the BYE cycle comes to (OK, ERR, a malformed line,
\* a failed write) the drop ends without reporting it: the dialog function
\* returns what it was returning before the drop (or the panic that dropped
\* the Connection goes on).
C17_OneByeDiscarded ==
    [][/\ (\E i \in DOMAIN wire : wire[i] = ByeLine) => wire' = wire
       /\ (cpc.stmt = "bye" /\ cpc'.stmt # "bye") =>
             /\ outcome' = outcome
             /\ cpc'.stmt = "done" \/ unwinding
       /\ (cpc'.stmt = "done" /\ calls' # <<>>) =>
             ByeCycles(calls') = {Len(calls')}]_vars

\* C18: once the drop of the Connection has begun it completes, also when the
\* helper never answers the BYE request and never exits.  The drop is two
\* steps of the client, the write of BYE and the read of its answer, so it
\* completes without the helper exactly when in each of its states the client
\* has a step to take that waits for nothing from the helper.
C18_TeardownBounded ==
    cpc.stmt = "bye" => ENABLED ClientNext

\* The cycles of the statement stmt that returned to the dialog function.
ReturnedCycles(stmt) ==
    {i \in DOMAIN calls : calls[i].stmt = stmt /\ ~calls[i].panicked}

\* C19: when the CONFIRM cycle returned Ok, confirm returns Ok(true); when
\* it returned Cancelled (code 99), Ok(false) with no Not-OK button and
\* Err(Cancelled) with one; when it returned the Gpg error of code 114 and
\* there is a Not-OK button, Ok(false); every other error is returned as it
\* is.
C19_ConfirmOutcome ==
    \A i \in ReturnedCycles("confirm") :
        LET r == calls[i].result IN
        outcome = Some(
            IF r.ok THEN DialogOk(None, TRUE)
            ELSE IF r.err.tag = "Cancelled"
            THEN (IF cfg.not_ok = None THEN DialogOk(None, FALSE)
                  ELSE DialogErr(ErrCancelled))
            ELSE IF r.err.tag = "Gpg" /\ r.err.code = 114 /\ cfg.not_ok # None
            THEN DialogOk(None, FALSE)
            ELSE DialogErr(r.err))

\* C19's case: with a Not-OK button the helper answered CONFIRM with ERR 114
\* and confirm has returned Ok(false).
C19_Witness ==
    /\ cpc.stmt = "done"
    /\ cfg.not_ok # None
    /\ \E i \in ReturnedCycles("confirm") :
          /\ calls[i].result.err.tag = "Gpg"
          /\ calls[i].result.err.code = 114
    /\ outcome = Some(DialogOk(None, FALSE))

\* C20: in interact, a GETPIN cycle that returned an error ends the dialog
\* with that error and one that returned data ends it with that data, which
\* is not empty.  One that returned Ok with no data ends the dialog with the
\* empty passphrase when required is not set; when it is set nothing is
\* returned for it, the next request is SETERROR with empty_error, after
\* whose Ok comes the next GETPIN and whose error is returned.  So with
\* required set a passphrase returned is never empty.
C20_RequiredRetries ==
    cfg.fn = "interact" =>
        /\ \A i \in ReturnedCycles("getpin") :
              LET r == calls[i].result IN
              IF ~r.ok THEN outcome = Some(DialogErr(r.err))
              ELSE IF r.data # None
              THEN /\ outcome = Some(DialogOk(r.data, FALSE))
                   /\ r.data[1] # <<>>
              ELSE IF cfg.required = None
              THEN outcome = Some(DialogOk(Some(<<>>), FALSE))
              ELSE /\ Len(calls) = i => outcome = None
                   /\ Len(calls) > i =>
                         /\ calls[i + 1].stmt = "seterror"
                         /\ calls[i + 1].request = Req(SETERROR, cfg.required)
        /\ \A i \in ReturnedCycles("seterror") :
              LET r == calls[i].result IN
              IF ~r.ok THEN outcome = Some(DialogErr(r.err))
              ELSE /\ Len(calls) = i => outcome = None
                   /\ Len(calls) > i => calls[i + 1].stmt = "getpin"
        /\ (cfg.required # None /\ outcome # None /\ outcome[1].ok) =>
              /\ outcome[1].data # None
              /\ outcome[1].data[1] # <<>>

\* C20's case: with required set the first GETPIN came back with no data,
\* SETERROR with empty_error was answered with OK, the second GETPIN
\* brought data and interact has returned it.
C20_Witness ==
    /\ cpc.stmt = "done"
    /\ cfg.required # None
    /\ \E i \in ReturnedCycles("getpin") :
          /\ calls[i].result.ok
          /\ calls[i].result.data = None
          /\ Len(calls) >= i + 2
          /\ calls[i + 1].request = Req(SETERROR, cfg.required)
          /\ calls[i + 1].result.ok
          /\ calls[i + 2].stmt = "getpin"
          /\ calls[i + 2].result.ok
          /\ outcome = Some(DialogOk(calls[i + 2].result.data, FALSE))
          /\ outcome[1].data # None

(***************************************************************************)
(* Claims about the lines of a cycle (Spec, SpecConn).                     *)
(***************************************************************************)
\* The line is a comment, a status line or an inquire line.
Passing(l) == server_response(l).kind \in {"Comment", "Information", "Inquire"}

\* The line "OK\n".
PlainOk == <<79, 75, LF>>

RECURSIVE Strip(_)
\* The lines without the comment, status and inquire lines, and each OK line
\* without its info text.
Strip(ls) ==
    IF ls = <<>> THEN <<>>
    ELSE IF Passing(Head(ls)) THEN Strip(Tail(ls))
    ELSE IF server_response(Head(ls)).kind = "Ok" THEN <<PlainOk>> \o Strip(Tail(ls))
    ELSE <<Head(ls)>> \o Strip(Tail(ls))

\* C21: the call of read_response that has read the lines got stands where
\* a call stands that has read only the D lines and the terminal line among
\* them, the OK line without its info text: in the loop with the same data
\* (no comment, status or inquire line has ended the cycle), or returned
\* with the same success and data or the same error.
C21_PassingLinesFrame ==
    \A quiet \in {read_response(Strip(got))} :
        /\ pc = "loop" =>
              /\ ~quiet.done
              /\ data = read_response(Strip(got) \o <<PlainOk>>).result.data
        /\ pc \in Returned \ {"return_io"} =>
              /\ quiet.done
              /\ ~quiet.panic
              /\ result = Some(quiet.result)
        /\ pc = "return_io" => ~quiet.done
        /\ pc = "panic" => quiet.panic

\* C21's case: a cycle with a D line and a comment, status or inquire line
\* was ended by "OK hi" and returned the data of the D line.
C21_Witness ==
    /\ pc = "return_ok"
    /\ seen # <<>>
    /\ \E i \in DOMAIN got : Passing(got[i])
    /\ got[Len(got)] # PlainOk
    /\ result = Some(Ok(Some(percent_decode(DPayload(seen[1])))))

\* A waiting call of read_response ends in the step: it returns or panics.
CycleEnds == cpc.wait /\ Len(calls') = Len(calls) + 1

\* The places of the inquire lines among the lines.
Inquiries(ls) ==
    {i \in DOMAIN ls : StartsWith(ls[i], <<73>>) /\ server_response(ls[i]).kind = "Inquire"}

\* The lines without the inquire lines.
Uninquired(ls) ==
    LET keep == {i \in DOMAIN ls : i \notin Inquiries(ls)}
        nth[k \in 0..Len(ls)] ==
            IF k = 0 THEN 0 ELSE CHOOSE i \in keep : i > nth[k - 1] /\ \A j \in keep : j > nth[k - 1] => i <= j
    IN  [k \in 1..Cardinality(keep) |-> ls[nth[k]]]

\* The places of the inquire lines the waiting call of read_response has
\* read, or reads before it ends.
Heard ==
    IF cpc.wait /\ Inquiries(Available) # {}
    THEN Inquiries(SubSeq(Available, 1, read_response(Available).n))
    ELSE {}

\* The first bytes of the lines that answer an inquiry: "D ", "END", "CAN".
InquiryAnswers == {<<68, 32>>, <<69, 78, 68>>, <<67, 65, 78>>}

DataStep == pc = "loop" /\ pc' = "loop" /\ Len(seen') = Len(seen) + 1

\* The content of a D line has a percent escape: its decoded form is a copy.
Escaped(l) == percent_decode(DPayload(l)) # DPayload(l)

\* C23: in the arm of a D line the accumulated data becomes the old content
\* followed by the decoded content of the line; the old accumulated buffer
\* (when there was one), the parsed D line and the decoded copy (when the
\* content had an escape) are released in the step, each holding no byte
\* when released; no buffer released so far holds a byte, and the raw line
\* buffer holds the line until the next iteration zeroes it.
C23_DataStepBuffers ==
    [][DataStep =>
          LET l == seen'[Len(seen')]
              given == {"data_line"} \cup (IF data = None THEN {} ELSE {"data"})
                          \cup (IF Escaped(l) THEN {"data_line_decoded"} ELSE {})
          IN  /\ data' = Some((IF data = None THEN <<>> ELSE data[1])
                                 \o percent_decode(DPayload(l)))
              /\ released \subseteq released'
              /\ {b.buf : b \in released' \ released} \subseteq given
              /\ given \subseteq {b.buf : b \in released'}
              /\ \A b \in released' : b.content = <<>>
              /\ line' = l]_vars

\* C23's case: after "D a" the line "D %41" was read: the old buffer, the
\* parsed line and the decoded copy were released, and the data is "aA".
C23_Witness ==
    /\ pc = "loop"
    /\ seen = << <<68, 32, 97, LF>>, <<68, 32, 37, 52, 49, CR, LF>> >>
    /\ data = Some(<<97, 65>>)
    /\ {b.buf : b \in released} = {"data", "data_line", "data_line_decoded"}
    /\ line = seen[2]

\* The line is a D line whose content does not decode to UTF-8.
BadData(l) ==
    \E r \in {server_response(l)} : r.kind = "DataLine" /\ ~IsUtf8(percent_decode(r.text))

\* The line is one after which the loop of read_response goes on.
Continues(l) ==
    \E r \in {server_response(l)} :
        \/ r.kind \in {"Comment", "Information", "Inquire"}
        \/ r.kind = "DataLine" /\ IsUtf8(percent_decode(r.text))

\* The places of the D lines not UTF-8 that the waiting call comes to: every
\* line before them lets the loop go on.
BadDataReached ==
    IF ~cpc.wait THEN {}
    ELSE {k \in DOMAIN Available :
             /\ BadData(Available[k])
             /\ \A j \in 1..(k - 1) : Continues(Available[j])}

\* C24: when the waiting call comes to a D line that is not UTF-8, the next
\* step of the client is the return of that call with the Encoding error and
\* no data, whatever D lines came before; the lines after that line stay
\* unread, and the dialog function returns the error (the drop returns
\* nothing).
C24_BadUtf8EndsCycle ==
    [][\A k \in BadDataReached :
          cpc' # cpc =>
             /\ CycleEnds
             /\ calls'[Len(calls')] = Cycle(cpc, Err(ErrEncoding), FALSE)
             /\ calls'[Len(calls')].result.data = None
             /\ pending' = SubSeq(pending, k + 1, Len(pending))
             /\ cpc.stmt # "bye" =>
                   /\ outcome' = Some(DialogErr(ErrEncoding))
                   /\ cpc'.stmt = "bye"]_vars

\* C24's case: GETPIN was answered with "D a", "D %FF" and "OK"; the call
\* returned the Encoding error, interact returns it, and "OK" is unread.
C24_Witness ==
    /\ calls # <<>>
    /\ calls[Len(calls)].stmt = "getpin"
    /\ calls[Len(calls)].result = Err(ErrEncoding)
    /\ outcome = Some(DialogErr(ErrEncoding))
    /\ [i \in DOMAIN pending |-> pending[i].line] = <<PlainOk>>

\* The place of an option command of interact in the order the claim gives.
Rank(cmd) ==
    CASE cmd = SETTITLE -> 1
      [] cmd = SETDESC -> 2
      [] cmd = SETERROR -> 3
      [] cmd = SETPROMPT -> 4
      [] cmd = SETOK -> 5
      [] cmd = SETCANCEL -> 6
      [] cmd = SETREPEAT -> 7
      [] cmd = SETREPEATERROR -> 8
      [] cmd = SETTIMEOUT -> 9
      [] OTHER -> 0

\* The option commands the dialog has configured, with their texts.
Configured(c) ==
    {q \in { Req(SETTITLE, c.title), Req(SETDESC, c.description),
              Req(SETERROR, c.error), Req(SETPROMPT, c.prompt),
              Req(SETOK, c.ok), Req(SETCANCEL, c.cancel),
              Req(SETREPEAT, IF c.confirmation = None THEN None
                             ELSE Some(c.confirmation[1].prompt)),
              Req(SETREPEATERROR, IF c.confirmation = None THEN None
                                  ELSE Some(c.confirmation[1].mismatch)),
              Req(SETTIMEOUT, IF c.timeout = None THEN None
                              ELSE Some(Dec(c.timeout[1]))) } : q.parameters # None}

\* The cycles of option commands, those of the dialog's commands, and the
\* lines written that are neither OPTION nor BYE.
IsSet(c) == c.stmt = "set"
IsDialogCycle(c) == c.stmt \in {"set", "getpin", "seterror"}
IsDialogLine(w) == w # ByeLine /\ ~StartsWith(w, OPTION \o <<SPACE>>)
GetpinLine == GETPIN \o <<LF>>

\* The cycle returned Ok.
EndedOk(c) == c.result.ok /\ ~c.panicked

\* C25: the option commands interact has sent are configured ones, with the
\* configured text, in the order of the claim, each written after the cycle
\* of the one before returned Ok and never while a cycle is under way;
\* GETPIN is written only after every configured one returned Ok; after an
\* option command whose cycle did not return Ok only BYE cycles follow, no
\* further line but BYE is written, and interact returns the error the cycle
\* returned.
C25_OptionOrder ==
    cfg.fn = "interact" =>
        LET sets == SelectSeq(calls, IsSet)
            cycles == SelectSeq(calls, IsDialogCycle)
            lines == SelectSeq(wire, IsDialogLine)
        IN  /\ \A k \in DOMAIN sets : sets[k].request \in Configured(cfg)
            /\ \A k \in 1..(Len(sets) - 1) :
                  /\ Rank(sets[k].request.command) < Rank(sets[k + 1].request.command)
                  /\ EndedOk(sets[k])
            /\ \A k \in DOMAIN lines :
                  k <= Len(sets) =>
                     lines[k] = encode_request(sets[k].request.command,
                                               sets[k].request.parameters).buf
            /\ Len(lines) <= Len(cycles) + (IF cpc.wait /\ IsDialogCycle(cpc) THEN 1 ELSE 0)
            /\ ((\E i \in DOMAIN wire : wire[i] = GetpinLine) \/ Len(cycles) > Len(sets)) =>
                  /\ {sets[k].request : k \in DOMAIN sets} = Configured(cfg)
                  /\ \A k \in DOMAIN sets : EndedOk(sets[k])
            /\ \A i \in DOMAIN calls :
                  (IsSet(calls[i]) /\ ~EndedOk(calls[i])) =>
                     /\ \A j \in DOMAIN calls : j > i => calls[j].stmt = "bye"
                     /\ Len(lines) <= Len(sets)
                     /\ ~calls[i].panicked => outcome = Some(DialogErr(calls[i].result.err))

\* C25's case: all nine option commands were sent, each cycle returned Ok,
\* GETPIN followed and interact has returned its data.
C25_Witness ==
    /\ cpc.stmt = "done"
    /\ cfg.fn = "interact"
    /\ Cardinality(Configured(cfg)) = 9
    /\ Len(SelectSeq(calls, IsSet)) = 9
    /\ Len(SelectSeq(wire, IsDialogLine)) = 10
    /\ outcome = Some(DialogOk(Some(<<97>>), FALSE))

RECURSIVE DataOf(_)
\* The decoded contents of the D lines among the lines, in order.
DataOf(ls) ==
    IF ls = <<>> THEN <<>>
    ELSE (IF server_response(Head(ls)).kind = "DataLine"
          THEN percent_decode(DPayload(Head(ls))) ELSE <<>>) \o DataOf(Tail(ls))

\* The lines the call that ends in the step has read.
Took == [i \in 1..(Len(pending) - Len(pending')) |-> pending[i].line]

\* C26: the data a call of read_response returns is made of the D lines
\* that call read and of nothing else: none when it read no D line or
\* returns an error, and else their decoded contents in order, whatever the
\* cycles before it on the connection returned.
C26_NoCarryOver ==
    [][(CycleEnds /\ ~calls'[Len(calls')].panicked) =>
          calls'[Len(calls')].result.data =
              IF calls'[Len(calls')].result.ok
                    /\ \E i \in DOMAIN Took : server_response(Took[i]).kind = "DataLine"
              THEN Some(DataOf(Took))
              ELSE None]_vars

\* C26's case: a cycle before GETPIN (an OPTION or option command) returned
\* the data "a" of its D line, GETPIN was answered with "D a" too, and
\* interact has returned "a".
C26_Witness ==
    /\ cpc.stmt = "done"
    /\ \E i \in DOMAIN calls :
          /\ calls[i].stmt \in {"handshake", "option", "set"}
          /\ calls[i].result = Ok(Some(<<97>>))
    /\ \E i \in DOMAIN calls :
          /\ calls[i].stmt = "getpin"
          /\ calls[i].result = Ok(Some(<<97>>))
    /\ outcome = Some(DialogOk(Some(<<97>>), FALSE))

\* C27: once the helper has exited, a waiting call of read_response ends:
\* it returns or panics on the lines left, and when these hold no line that
\* ends a cycle it reads them all, then the end of input, and returns an
\* error (the io::Error of kind InvalidData that the empty line gives).
C27_EndOfInputEnds ==
    (cpc.wait /\ helper = "exited") =>
        /\ ENABLED (CycleReturns \/ CyclePanics)
        /\ (\A i \in DOMAIN pending : Continues(pending[i].line)) =>
              /\ ENABLED CycleReturns
              /\ ~ENABLED CyclePanics
              /\ read_response(Available)
                    = Returns(Len(pending) + 1, Err(ErrIo("InvalidData")))

\* C27's case: the helper exited without a terminal line for GETPIN; the
\* call read to the end of input and returned the error, which interact
\* returns.
C27_Witness ==
    /\ helper = "exited"
    /\ pending = <<>>
    /\ calls # <<>>
    /\ calls[Len(calls)].stmt = "getpin"
    /\ calls[Len(calls)].result = Err(ErrIo("InvalidData"))
    /\ wire[Len(wire)] = GetpinLine
    /\ outcome = Some(DialogErr(ErrIo("InvalidData")))

(***************************************************************************)
(* Claims about the parser's totality (SpecParse).                         *)
(***************************************************************************)

\* C28: for every input line, an ERR line whose digits denote a value above
\* 2^32 - 1 included, server_response returns one of the six variants or a
\* parse error: it never panics.
C28_ParserNeverPanics ==
    ppc = "parsed" => parsed.kind \in Variants \cup {"ParseError"}
====
